---- MODULE Spec2Model ----
(***************************************************************************)
(* A model of the cam-formatting-suite asset tools:                        *)
(*   - femaptool: process_femap, gid_to_tile, make_map_change,             *)
(*     TileIterator (src/bin/femaptool/src/tmx.rs)                         *)
(*   - tilemage: convert_image, guess_fixed_palette,                       *)
(*     GBAImage::from_generic_image (src/tilemage/src/lib.rs)              *)
(*   - gbalz77tool: the compress / decompress driver                       *)
(*     (src/bin/gbalz77tool/src/main.rs) over the GBA LZ77 frame           *)
(*                                                                         *)
(* Conventions.                                                            *)
(*   Option<T> is a sequence of length <= 1: NoneV is None, Some(v).       *)
(*   A usize is written as its 64-bit two's complement reading: a value    *)
(*   v < 0 stands for the usize 2^64 + v, so a wrapped subtraction a - b   *)
(*   with a < b is the integer a - b, and adding 1 to -1 wraps to 0.       *)
(*   build is the cargo profile: integer overflow panics under "debug"     *)
(*   and wraps under "release".                                            *)
(***************************************************************************)
EXTENDS Integers, Sequences, FiniteSets, TLC

VARIABLES
    build,        \* "debug" | "release": overflow checks on or off
    \* process_femap
    layers,       \* map.layers(): the input sequence of layers
    li,           \* position of the `for layer in map.layers()` loop (1-based)
    main_layer,   \* MainLayerState
    map_changes,  \* Vec<(String, MapChange)>
    width,        \* Result<usize>: NoneV is the Err("unable to determine ...")
    height,
    properties,   \* the (key, text) pairs populated into the map's Properties
    femap,        \* what process_femap returned: [status, err, map]
    \* gid_to_tile on its own
    gid_in,
    gid_out,
    \* make_map_change on its own
    mc_in,
    mc_out,
    \* tilemage: convert_image and GBAImage::from_generic_image
    img_in,       \* the decoded image: [w, h, pix], pix row-major
    pal_in,       \* Option<Palette>: the palette argument
    fmt_in,       \* the ImageFormat: "Png" or "Bmp"
    plte_in,      \* Option<Palette>: the PLTE chunk of a PNG file
    img_out,      \* Result<GBAImage, Error>
    run_opts,     \* ConvertOpts: which of --output and --palette-out are given
    run_out,      \* what ConvertOpts::run returned and wrote
    \* tilemage: palettes as strings and as bytes
    ps_in,        \* the argument of parse_palette_string: a sequence of chars
    ps_out,       \* [status, palette (Option<Palette>), shown (its Display)]
    pe_in,        \* a Palette
    pe_out,       \* [status, bytes (its encode()), decoded (Palette from bytes)]
    \* gbalz77tool
    lz_input,     \* the bytes read from the input file
    lz_best,      \* Mode::Compress { best }
    lz_pc,        \* "compress" | "decompress": the next run of the tool;
                  \* "done" | "panic": how the decompress run ended
    lz_start,     \* Mode::Decompress { start }: Option<usize>
    lz_end,       \* Mode::Decompress { end }: Option<usize>
    lz_file,      \* the file written by the compress run
    lz_result,    \* decompress's pair: [bytes, errs]
    lz_output     \* Option<bytes>: what the decompress run wrote, if anything

femapVars == <<layers, li, main_layer, map_changes, width, height, properties, femap>>
gidVars == <<gid_in, gid_out>>
mcVars == <<mc_in, mc_out>>
imgVars == <<img_in, pal_in, fmt_in, plte_in, img_out, run_opts, run_out>>
palVars == <<ps_in, ps_out, pe_in, pe_out>>
lzVars == <<lz_input, lz_best, lz_pc, lz_start, lz_end, lz_file, lz_result, lz_output>>
vars == <<build, femapVars, gidVars, mcVars, imgVars, palVars, lzVars>>

NoneV == << >>
Some(v) == <<v>>
Builds == {"debug", "release"}

----------------------------------------------------------------------------
(* Bounds of the inputs explored.                                          *)
MaxLayers == 4     \* layers in a map
MaxW == 3          \* width of a layer handed to make_map_change on its own
MaxH == 3          \* height of such a layer
MaxColor == 17     \* the images and palettes use the colors Col(0..MaxColor)
MaxLen == 6        \* length of the byte buffers enumerated in full
MaxPal == 2        \* length of the palettes enumerated in full
MaxFrame == 6      \* bytes after the header of the frames enumerated in full

----------------------------------------------------------------------------
(* gid_to_tile: u16::try_from(gid * 4) on a u32 gid.                       *)

TWO16 == 65536

\* gid * 4 as the 32-bit product, in two 16-bit halves <<hi, lo>>, together
\* with whether the u32 multiplication overflowed.
MulWraps(g) == (g \div TWO16) * 4 + (((g % TWO16) * 4) \div TWO16) >= TWO16
u32_mul4(g) ==
    LET lo4 == (g % TWO16) * 4
        hi4 == (g \div TWO16) * 4 + (lo4 \div TWO16)
    IN  [hi |-> hi4 % TWO16, lo |-> lo4 % TWO16, overflow |-> MulWraps(g)]

\* Result<Tile>: status "Ok" with the tile, "Err" (TryFromIntError), or
\* "Panic" (attempt to multiply with overflow, debug profile only).
TileOk(t) == [status |-> "Ok", tile |-> t]
TileErr == [status |-> "Err", tile |-> 0]
TilePanic == [status |-> "Panic", tile |-> 0]

gid_to_tile(gid, b) ==
    IF gid = NoneV THEN TileOk(0)
    ELSE LET p == u32_mul4(gid[1])
         IN  IF p.overflow /\ b = "debug" THEN TilePanic
             ELSE IF p.hi # 0 THEN TileErr
             ELSE TileOk(p.lo)

----------------------------------------------------------------------------
(* Layers.  kind is "finite" (a finite tile layer), "infinite" (an         *)
(* infinite tile layer) or "object" (any non-tile layer).  cells is the    *)
(* row-major grid of Option<gid>, w * h long.                              *)

\* A string is the sequence of its chars, each a one-character string; the
\* strings of the inputs are ASCII.
\* The lower case of an ASCII char: A-Z go to a-z, any other char stays.
char_to_lowercase(c) ==
    LET upper == <<"A", "B", "C", "D", "E", "F", "G", "H", "I", "J", "K", "L", "M",
                   "N", "O", "P", "Q", "R", "S", "T", "U", "V", "W", "X", "Y", "Z">>
        lower == <<"a", "b", "c", "d", "e", "f", "g", "h", "i", "j", "k", "l", "m",
                   "n", "o", "p", "q", "r", "s", "t", "u", "v", "w", "x", "y", "z">>
    IN  IF \E i \in 1..26 : upper[i] = c
        THEN lower[CHOOSE i \in 1..26 : upper[i] = c]
        ELSE c

\* str::to_lowercase.
to_lowercase(s) == [i \in 1..Len(s) |-> char_to_lowercase(s[i])]

\* The literal "main" of tmx.rs:27 and 31.
MAIN_NAME == <<"m", "a", "i", "n">>

\* FiniteTileLayer::get_tile(x, y): None outside the layer.
get_tile(layer, x, y) ==
    IF x < 0 \/ y < 0 \/ x >= layer.w \/ y >= layer.h THEN NoneV
    ELSE layer.cells[y * layer.w + x + 1]

\* is_explicit_main looking at the name only.
is_explicit_main_name_only(layer) == to_lowercase(layer.name) = MAIN_NAME
\* The condition of tmx.rs:27-31.
is_explicit_main(layer) ==
    \/ to_lowercase(layer.name) = MAIN_NAME
    \/ \E kv \in layer.props : to_lowercase(kv[1]) = MAIN_NAME

\* as_finite_tile_layer taking any tile layer, finite or not.
as_any_tile_layer(layer) == layer.kind \in {"finite", "infinite"}
\* layer.as_tile_layer() matches Some(TileLayer::Finite(_)), tmx.rs:22-25.
as_finite_tile_layer(layer) == layer.kind = "finite"

----------------------------------------------------------------------------
(* TileIterator.                                                           *)

\* a >= b on usize values in their two's complement reading.
usize_ge(a, b) ==
    IF (a < 0) = (b < 0) THEN a >= b ELSE a < 0

TileIterator_all(src) ==
    [src |-> src, x |-> 0, y |-> 0, base_x |-> 0, base_y |-> 0,
     width |-> src.w, height |-> src.h]

\* TileIterator::window starting at the layer's origin whatever the base.
TileIterator_window_at_origin(src, params) ==
    [src |-> src, x |-> 0, y |-> 0, base_x |-> 0,
     base_y |-> 0, width |-> params.width, height |-> params.height]
TileIterator_window(src, params) ==
    [src |-> src, x |-> 0, y |-> 0, base_x |-> params.base_x,
     base_y |-> params.base_y, width |-> params.width, height |-> params.height]

\* One call of next(): the item (NoneV at the end, else Some(<<x, y, gid>>))
\* and the iterator afterwards.
TileIterator_next(it) ==
    LET it1 == IF usize_ge(it.x, it.width)
               THEN [it EXCEPT !.x = 0, !.y = it.y + 1] ELSE it
    IN  IF usize_ge(it1.y, it1.height) THEN [item |-> NoneV, it |-> it1]
        ELSE LET x == it1.x + it1.base_x
                 y == it1.y + it1.base_y
             IN  [item |-> Some(<<x, y, get_tile(it1.src, x, y)>>),
                  it |-> [it1 EXCEPT !.x = it1.x + 1]]

\* The items of the iterator run to its end (dimensions below 2^63 only).
RECURSIVE Items(_)
Items(it) ==
    LET r == TileIterator_next(it)
    IN  IF r.item = NoneV THEN << >> ELSE <<r.item[1]>> \o Items(r.it)

\* to_tiles: gid_to_tile over the items, collected into a Result that stops
\* at the first failure.
RECURSIVE CollectTiles(_, _, _)
CollectTiles(items, i, b) ==
    IF i > Len(items) THEN [status |-> "Ok", tiles |-> << >>]
    ELSE LET t == gid_to_tile(items[i][3], b)
         IN  IF t.status # "Ok" THEN [status |-> t.status, tiles |-> << >>]
             ELSE LET rest == CollectTiles(items, i + 1, b)
                  IN  IF rest.status # "Ok" THEN rest
                      ELSE [status |-> "Ok", tiles |-> <<t.tile>> \o rest.tiles]

to_tiles(it, b) == CollectTiles(Items(it), 1, b)

make_main_tile_layer(layer, b) == to_tiles(TileIterator_all(layer), b)

----------------------------------------------------------------------------
(* make_map_change.                                                        *)

Min2(a, b) == IF a < b THEN a ELSE b
Max2(a, b) == IF a > b THEN a ELSE b

\* The loop of tmx.rs:95-102 over items[i..], from the extremes e.
RECURSIVE Extremes(_, _, _)
Extremes(items, i, e) ==
    IF i > Len(items) THEN e
    ELSE LET x == items[i][1]
             y == items[i][2]
             gid == items[i][3]
         IN  Extremes(items, i + 1,
                 IF gid # NoneV
                 THEN [xmin |-> Min2(x, e.xmin), xmax |-> Max2(x, e.xmax),
                       ymin |-> Min2(y, e.ymin), ymax |-> Max2(y, e.ymax)]
                 ELSE e)

\* BoundingBox with the minima started at 0.
BoundingBoxFromZero(layer) ==
    Extremes(Items(TileIterator_all(layer)), 1,
             [xmin |-> 0, xmax |-> 0, ymin |-> 0, ymax |-> 0])
BoundingBox(layer) ==
    Extremes(Items(TileIterator_all(layer)), 1,
             [xmin |-> layer.w, xmax |-> 0, ymin |-> layer.h, ymax |-> 0])

\* MapChange::new (femap.rs): the record of its five arguments.
MapChange_new(base_x, base_y, w, h, tiles) ==
    [base_x |-> base_x, base_y |-> base_y, width |-> w, height |-> h,
     tiles |-> tiles]

NoChange == MapChange_new(0, 0, 0, 0, << >>)

\* Result<MapChange>.  status is "Ok", "Err" (a tile id does not fit),
\* "Panic" (arithmetic overflow, debug profile) or "Exhausted" (the window
\* has 2^63 rows or more: collecting its tiles never completes).
make_map_change(layer, b) ==
    LET e == BoundingBox(layer)
        w == e.xmax - e.xmin + 1
        h == e.ymax - e.ymin + 1
        params == [width |-> w, height |-> h, base_x |-> e.xmin, base_y |-> e.ymin]
    IN  IF b = "debug" /\ (e.xmax < e.xmin \/ e.ymax < e.ymin)
        THEN [status |-> "Panic", change |-> NoChange]
        ELSE IF h < 0
        THEN [status |-> "Exhausted", change |-> NoChange]
        ELSE LET t == to_tiles(TileIterator_window(layer, params), b)
             IN  IF t.status # "Ok" THEN [status |-> t.status, change |-> NoChange]
                 ELSE [status |-> "Ok",
                       change |-> MapChange_new(e.xmin, e.ymin, w, h, t.tiles)]

----------------------------------------------------------------------------
(* Property values and render_property_value.                              *)

\* tiled::PropertyValue, kind its variant.  A FloatValue holds a float of
\* integral value, given as that integer; the payloads of FileValue,
\* ColorValue and ClassValue are not read.
PropertyValue(kind, t) == [kind |-> kind, t |-> t]

\* Display of an integer, and of a float of integral value, which is
\* written without a fraction.
RECURSIVE fmt_int(_)
fmt_int(n) ==
    LET digits == <<"0", "1", "2", "3", "4", "5", "6", "7", "8", "9">>
    IN  IF n < 0 THEN <<"-">> \o fmt_int(0 - n)
        ELSE IF n < 10 THEN <<digits[n + 1]>>
        ELSE Append(fmt_int(n \div 10), digits[(n % 10) + 1])

\* render_property_value: Option<String>.
render_property_value(p) ==
    CASE p.kind = "BoolValue" ->
             Some(IF p.t THEN <<"t", "r", "u", "e">> ELSE <<"f", "a", "l", "s", "e">>)
      [] p.kind = "FloatValue" -> Some(fmt_int(p.t))
      [] p.kind = "IntValue" -> Some(fmt_int(p.t))
      [] p.kind = "StringValue" -> Some(p.t)
      [] p.kind = "ObjectValue" -> Some(fmt_int(p.t))
      [] p.kind = "FileValue" -> NoneV
      [] p.kind = "ColorValue" -> NoneV
      [] p.kind = "ClassValue" -> NoneV

\* tmx.rs:39-41 and 66-68: the (key, text) pairs handed to populate_from,
\* those of the properties whose value renders.
rendered_properties(props) ==
    { <<kv[1], render_property_value(kv[2])[1]>> :
        kv \in { q \in props : render_property_value(q[2]) # NoneV } }

----------------------------------------------------------------------------
(* process_femap, one action per turn of its loop over map.layers().       *)

\* A layer; props is tiled::Properties as the set of its (key, value)
\* pairs, no key twice.
Layer(kind, name, props, w, h, cells) ==
    [kind |-> kind, name |-> name, props |-> props, w |-> w, h |-> h,
     cells |-> cells]

NoLayer == Layer("none", << >>, {}, 0, 0, << >>)

\* The layers a map is built from.
LayerUniverse ==
    { Layer("finite", <<"b", "g">>,
            { <<<<"l", "i", "t">>, PropertyValue("BoolValue", TRUE)>>,
              <<<<"s", "c", "a", "l", "e">>, PropertyValue("FloatValue", 2)>>,
              <<<<"d", "o", "o", "r">>, PropertyValue("ObjectValue", 7)>>,
              <<<<"k", "i", "n", "d">>, PropertyValue("ClassValue", 0)>> },
            2, 1, <<Some(1), NoneV>>),
      Layer("finite", <<"F", "o", "g">>,
            { <<<<"w", "e", "a", "t", "h", "e", "r">>, PropertyValue("ColorValue", 0)>>,
              <<<<"l", "e", "v", "e", "l">>, PropertyValue("IntValue", 0 - 12)>> },
            1, 2, <<NoneV, Some(2)>>),
      Layer("finite", <<"M", "A", "i", "n">>, {}, 2, 2,
            <<Some(1), Some(2), NoneV, Some(3)>>),
      Layer("finite", <<"r", "o", "o", "f">>,
            { <<<<"w", "e", "a", "t", "h", "e", "r">>,
                PropertyValue("StringValue", <<"r", "a", "i", "n">>)>>,
              <<<<"m", "A", "I", "N">>, PropertyValue("FileValue", 0)>> },
            1, 1, <<Some(5)>>),
      Layer("infinite", <<"m", "a", "i", "n">>, {}, 0, 0, << >>),
      Layer("object", <<"m", "A", "i", "N">>,
            { <<<<"m", "a", "i", "n">>, PropertyValue("StringValue", << >>)>> },
            0, 0, << >>),
      Layer("finite", <<"b", "l", "a", "n", "k">>, {}, 2, 2,
            <<NoneV, NoneV, NoneV, NoneV>>),
      Layer("finite", <<"b", "i", "g">>, {}, 1, 1, <<Some(16384)>>) }

LayerSeqs == UNION { [1..n -> LayerUniverse] : n \in 0..MaxLayers }

\* MainLayerState.  idx is the position in map.layers() of the layer held
\* (history only: the code holds the layer itself).
NotFound == [tag |-> "NotFound", name |-> << >>, layer |-> NoLayer, props |-> {},
             tiles |-> << >>, idx |-> 0]
Candidate(name, layer, props, i) ==
    [tag |-> "Candidate", name |-> name, layer |-> layer, props |-> props,
     tiles |-> << >>, idx |-> i]
Found(tiles, i) ==
    [tag |-> "Found", name |-> << >>, layer |-> NoLayer, props |-> {},
     tiles |-> tiles, idx |-> i]

\* Map::new (femap.rs): the record of its five arguments.
Map_new(w, h, changes, tiles, props) ==
    [width |-> w, height |-> h, map_changes |-> changes, tiles |-> tiles,
     properties |-> props]

NoMap == Map_new(0, 0, << >>, << >>, {})

Running == [status |-> "Running", err |-> "", map |-> NoMap, primary |-> 0]
\* process_femap returned Err(msg), or did not return (status "Panic" or
\* "Exhausted").
Failed(status, msg) == [status |-> status, err |-> msg, map |-> NoMap, primary |-> 0]
FailMsg(status) ==
    IF status = "Err" THEN "out of range integral type conversion attempted"
    ELSE ""

\* An entry of map_changes; src is the position of the layer it was made
\* from (history only).
ChangeEntry(name, change, i) == [name |-> name, change |-> change, src |-> i]

InitFemap ==
    /\ layers \in LayerSeqs
    /\ li = 1
    /\ main_layer = NotFound
    /\ map_changes = << >>
    /\ width = NoneV
    /\ height = NoneV
    /\ properties = {}
    /\ femap = Running

\* tmx.rs:22-25: anything but a finite tile layer is skipped.
ScanSkip ==
    /\ femap.status = "Running"
    /\ li <= Len(layers)
    /\ ~as_finite_tile_layer(layers[li])
    /\ li' = li + 1
    /\ UNCHANGED <<layers, main_layer, map_changes, width, height, properties, femap>>

\* tmx.rs:27-46: an explicit main layer.
ScanMain ==
    /\ femap.status = "Running"
    /\ li <= Len(layers)
    /\ as_finite_tile_layer(layers[li])
    /\ is_explicit_main(layers[li])
    /\ LET layer == layers[li]
           t == make_main_tile_layer(layer, build)
       IN  IF main_layer.tag = "Found"
           THEN /\ femap' = Failed("Err", "map has multiple main layers!")
                /\ UNCHANGED <<li, main_layer, map_changes, width, height, properties>>
           ELSE IF t.status # "Ok"
           THEN /\ femap' = Failed(t.status, FailMsg(t.status))
                /\ UNCHANGED <<li, main_layer, map_changes, width, height, properties>>
           ELSE /\ main_layer' = Found(t.tiles, li)
                /\ properties' = properties \cup rendered_properties(layer.props)
                /\ width' = Some(layer.w)
                /\ height' = Some(layer.h)
                /\ li' = li + 1
                /\ UNCHANGED <<map_changes, femap>>
    /\ UNCHANGED layers

\* tmx.rs:47-61: any other finite tile layer.
ScanOther ==
    /\ femap.status = "Running"
    /\ li <= Len(layers)
    /\ as_finite_tile_layer(layers[li])
    /\ ~is_explicit_main(layers[li])
    /\ LET layer == layers[li]
           mine == make_map_change(layer, build)
           held == make_map_change(main_layer.layer, build)
       IN  CASE main_layer.tag = "NotFound" ->
                 /\ main_layer' = Candidate(layer.name, layer, layer.props, li)
                 /\ li' = li + 1
                 /\ UNCHANGED <<map_changes, femap>>
             [] main_layer.tag = "Found" ->
                 IF mine.status # "Ok"
                 THEN /\ femap' = Failed(mine.status, FailMsg(mine.status))
                      /\ UNCHANGED <<li, main_layer, map_changes>>
                 ELSE /\ map_changes' =
                            Append(map_changes, ChangeEntry(layer.name, mine.change, li))
                      /\ li' = li + 1
                      /\ UNCHANGED <<main_layer, femap>>
             [] main_layer.tag = "Candidate" ->
                 IF held.status # "Ok"
                 THEN /\ femap' = Failed(held.status, FailMsg(held.status))
                      /\ UNCHANGED <<li, main_layer, map_changes>>
                 ELSE IF mine.status # "Ok"
                 THEN /\ femap' = Failed(mine.status, FailMsg(mine.status))
                      /\ map_changes' =
                            Append(map_changes,
                                   ChangeEntry(main_layer.name, held.change, main_layer.idx))
                      /\ UNCHANGED <<li, main_layer>>
                 ELSE /\ map_changes' =
                            Append(Append(map_changes,
                                          ChangeEntry(main_layer.name, held.change,
                                                      main_layer.idx)),
                                   ChangeEntry(layer.name, mine.change, li))
                      /\ li' = li + 1
                      /\ UNCHANGED <<main_layer, femap>>
    /\ UNCHANGED <<layers, width, height, properties>>

\* tmx.rs:64-77: after the loop.
Finish ==
    /\ femap.status = "Running"
    /\ li > Len(layers)
    /\ CASE main_layer.tag = "NotFound" ->
             /\ femap' = Failed("Err", "no main layer!")
             /\ UNCHANGED <<width, height, properties>>
         [] main_layer.tag = "Candidate" ->
             LET t == make_main_tile_layer(main_layer.layer, build)
             IN  IF t.status # "Ok"
                 THEN /\ femap' = Failed(t.status, FailMsg(t.status))
                      /\ properties' = properties \cup rendered_properties(main_layer.props)
                      /\ width' = Some(main_layer.layer.w)
                      /\ height' = Some(main_layer.layer.h)
                 ELSE /\ properties' = properties \cup rendered_properties(main_layer.props)
                      /\ width' = Some(main_layer.layer.w)
                      /\ height' = Some(main_layer.layer.h)
                      /\ femap' = [status |-> "Ok", err |-> "",
                                   map |-> Map_new(main_layer.layer.w, main_layer.layer.h,
                                                   map_changes, t.tiles,
                                                   properties
                                                       \cup rendered_properties(main_layer.props)),
                                   primary |-> main_layer.idx]
         [] main_layer.tag = "Found" ->
             /\ femap' = [status |-> "Ok", err |-> "",
                          map |-> Map_new(width[1], height[1], map_changes,
                                          main_layer.tiles, properties),
                          primary |-> main_layer.idx]
             /\ UNCHANGED <<width, height, properties>>
    /\ UNCHANGED <<layers, li, main_layer, map_changes>>

----------------------------------------------------------------------------
(* gid_to_tile and make_map_change applied on their own.                   *)

\* u32 gids around the limits of the 16-bit tile and of the 32-bit product
\* (gids of 2^31 and above are not written out).
GidSamples ==
    { hi * TWO16 + lo : hi \in {0, 1, 2, 16383, 16384, 16385, 32767},
                        lo \in {0, 1, 2, 16383, 16384, 16385, 65535} }
GidInputs == {NoneV} \cup { Some(g) : g \in GidSamples }

NoTile == [status |-> "None", tile |-> 0]

InitGid ==
    /\ gid_in \in GidInputs
    /\ gid_out = NoTile

CallGidToTile ==
    /\ gid_out = NoTile
    /\ gid_out' = gid_to_tile(gid_in, build)
    /\ UNCHANGED gid_in

\* Finite tile layers of every size up to MaxW x MaxH, each cell empty or
\* holding gid 1.
Grids(w, h) == [1..(w * h) -> {NoneV, Some(1)}]
ChangeLayer(w, h, cells) ==
    Layer("finite", <<"c", "h", "a", "n", "g", "e">>, {}, w, h, cells)

NoResult == [status |-> "None", change |-> NoChange]

\* A grid with its non-empty cells renumbered: cell k (row-major, from 1)
\* holds gid k, so that no two cells encode alike.
Numbered(cells) ==
    [k \in 1..Len(cells) |-> IF cells[k] = NoneV THEN NoneV ELSE Some(k)]
\* A grid whose only non-empty cell is cell k, holding gid g.
OneCell(n, k, g) == [i \in 1..n |-> IF i = k THEN Some(g) ELSE NoneV]
\* The largest gid that encodes, the smallest that does not, and the
\* smallest whose product by 4 leaves u32.
EdgeGids == {16383, 16384, 1073741824}

InitChange ==
    /\ \E w \in 1..MaxW, h \in 1..MaxH :
          \/ \E cells \in Grids(w, h) :
                mc_in \in {ChangeLayer(w, h, cells), ChangeLayer(w, h, Numbered(cells))}
          \/ \E k \in 1..(w * h), g \in EdgeGids :
                mc_in = ChangeLayer(w, h, OneCell(w * h, k, g))
    /\ mc_out = NoResult

CallMakeMapChange ==
    /\ mc_out = NoResult
    /\ mc_out' = make_map_change(mc_in, build)
    /\ UNCHANGED mc_in

----------------------------------------------------------------------------
(* tilemage: colors, palettes and GBAImage::from_generic_image.            *)

\* Color::rgb.
rgb(r, g, b) == <<r, g, b>>

\* The i-th color of the inputs; distinct for distinct i in 0..255.
Col(i) == rgb((i * 8) % 256, (i * 40) % 256, 255 - i)

PALETTE_MAX == 16

\* iter.take(n).
Take(seq, n) == IF Len(seq) <= n THEN seq ELSE SubSeq(seq, 1, n)

\* HashMap::insert: a later value replaces an earlier one of the same key.
HashMap_insert(m, k, v) ==
    [x \in (DOMAIN m) \cup {k} |-> IF x = k THEN v ELSE m[x]]

EmptyMap == [x \in {} |-> 0]

\* collect::<HashMap<Color, usize>>() of (color, index) pairs in order,
\* indices from 0 (lib.rs:248-254), from position i on.
RECURSIVE CollectColorMap(_, _, _)
CollectColorMap(pal, i, m) ==
    IF i > Len(pal) THEN m
    ELSE CollectColorMap(pal, i + 1, HashMap_insert(m, pal[i], i - 1))

\* The entries of the map sorted by index, their colors (lib.rs:282-286).
RECURSIVE SortedByIdx(_)
SortedByIdx(m) ==
    IF DOMAIN m = {} THEN << >>
    ELSE LET k == CHOOSE c \in DOMAIN m : \A d \in DOMAIN m : m[c] <= m[d]
         IN  <<k>> \o SortedByIdx([x \in (DOMAIN m) \ {k} |-> m[x]])

\* The pixel closure of lib.rs:263-279 on one color, from the map, the
\* count and the data so far: the same with the pixel's index appended, or
\* the error that ends the collect.
MapPixel(st, color, fixed_palette) ==
    IF color \in DOMAIN st.colors
    THEN [st EXCEPT !.data = Append(st.data, st.colors[color])]
    ELSE IF fixed_palette THEN [st EXCEPT !.status = "UnknownColor"]
    ELSE [st EXCEPT !.colors = HashMap_insert(st.colors, color, st.count),
                    !.count = st.count + 1,
                    !.data = Append(st.data, st.count)]

\* The closure run over pix[lo..hi] in order, stopping at the first error;
\* the range is halved so that the evaluation stays shallow.
RECURSIVE MapPixelRange(_, _, _, _, _)
MapPixelRange(pix, lo, hi, fixed_palette, st) ==
    IF st.status # "Ok" \/ lo > hi THEN st
    ELSE IF lo = hi THEN MapPixel(st, pix[lo], fixed_palette)
    ELSE LET mid == (lo + hi) \div 2
         IN  MapPixelRange(pix, mid + 1, hi, fixed_palette,
                           MapPixelRange(pix, lo, mid, fixed_palette, st))

\* The closure run over pix[i..]: the Result of the collect, with the map
\* and the data so far.
MapPixels(pix, i, fixed_palette, colors, count, data) ==
    LET r == MapPixelRange(pix, i, Len(pix), fixed_palette,
                 [status |-> "Ok", colors |-> colors, count |-> count, data |-> data])
    IN  [status |-> r.status, colors |-> r.colors, data |-> r.data]

GBAImage(palette, w, h, data) ==
    [palette |-> palette, width |-> w, height |-> h, data |-> data]

NoImage == GBAImage(<< >>, 0, 0, << >>)

\* Whether a supplied palette is closed to new colors (lib.rs:244-247).
is_fixed_palette(colors) == colors # NoneV

from_generic_image(img, colors) ==
    LET fixed_palette == is_fixed_palette(colors)
        map0 == IF colors = NoneV THEN EmptyMap
                ELSE CollectColorMap(Take(colors[1], PALETTE_MAX), 1, EmptyMap)
        count == Cardinality(DOMAIN map0)
        r == MapPixels(img.pix, 1, fixed_palette, map0, count, << >>)
    IN  IF r.status # "Ok" THEN [status |-> r.status, image |-> NoImage]
        ELSE [status |-> "Ok",
              image |-> GBAImage(SortedByIdx(r.colors), img.w, img.h, r.data)]

----------------------------------------------------------------------------
(* lib/gbagfx.rs: GBAImage::from_image_view and its two entry points.      *)

\* The first element of the match of gbagfx.rs:110-121: true with no
\* palette, false with one.
from_image_view_fixed_palette(colors) == colors = NoneV

\* The orders in which sorted_by (gbagfx.rs:147-151) can leave the entries
\* of the map: by index, entries of equal index in the order the HashMap
\* yields them, which is not determined.
RECURSIVE SortedOrders(_)
SortedOrders(m) ==
    IF DOMAIN m = {} THEN { << >> }
    ELSE LET least == { c \in DOMAIN m : \A d \in DOMAIN m : m[c] <= m[d] }
         IN  UNION { { <<k>> \o s :
                         s \in SortedOrders([x \in (DOMAIN m) \ {k} |-> m[x]]) } :
                     k \in least }

\* The Results from_image_view can return: the whole palette is collected
\* into the map, and the pixel closure is the one of MapPixels.
from_image_view(img, colors) ==
    LET fixed_palette == from_image_view_fixed_palette(colors)
        map0 == IF colors = NoneV THEN EmptyMap
                ELSE CollectColorMap(colors[1], 1, EmptyMap)
        count == Cardinality(DOMAIN map0)
        r == MapPixels(img.pix, 1, fixed_palette, map0, count, << >>)
    IN  IF r.status # "Ok" THEN { [status |-> r.status, image |-> NoImage] }
        ELSE { [status |-> "Ok", image |-> GBAImage(p, img.w, img.h, r.data)] :
                 p \in SortedOrders(r.colors) }

with_inferred_palette(img) == from_image_view(img, NoneV)
with_known_palette(img, palette) == from_image_view(img, Some(palette))

----------------------------------------------------------------------------
(* guess_fixed_palette and convert_image.                                  *)

Range(seq) == { seq[i] : i \in 1..Len(seq) }

in_bounds(img, x, y) == x < img.w /\ y < img.h
get_pixel(img, x, y) == img.pix[y * img.w + x + 1]

\* (0..8).cartesian_product(0..2): x is the outer index, y the inner one.
TopLeftCoords == [k \in 1..16 |-> <<(k - 1) \div 2, (k - 1) % 2>>]

\* lib.rs:457-466: None as soon as one of the 16 cells is out of bounds.
topleft8x2(img) ==
    IF \E k \in 1..16 : ~in_bounds(img, TopLeftCoords[k][1], TopLeftCoords[k][2])
    THEN NoneV
    ELSE Some([k \in 1..16 |-> get_pixel(img, TopLeftCoords[k][1], TopLeftCoords[k][2])])

\* guess_fixed_palette trying the 8x2 block before the first 16 pixels.
guess_block_first(img) ==
    LET first16 == Take(img.pix, 16)
        block == topleft8x2(img)
    IN  IF block # NoneV /\ Cardinality(Range(block[1])) = 16 THEN block
        ELSE IF Cardinality(Range(first16)) = 16 THEN Some(first16)
        ELSE NoneV
guess_fixed_palette(img) ==
    LET first16 == Take(img.pix, 16)
        block == topleft8x2(img)
    IN  IF Cardinality(Range(first16)) = 16 THEN Some(first16)
        ELSE IF block = NoneV THEN NoneV
        ELSE IF Cardinality(Range(block[1])) = 16 THEN block
        ELSE NoneV

\* load_png_palette: the PLTE chunk of the file, if it has one.
load_png_palette(plte) == plte

convert_image(img, format, plte, palette) ==
    LET p1 == IF palette = NoneV
              THEN (IF format = "Png" THEN load_png_palette(plte) ELSE NoneV)
              ELSE palette
        p2 == IF p1 = NoneV THEN guess_fixed_palette(img) ELSE p1
    IN  from_generic_image(img, p2)

----------------------------------------------------------------------------
(* Color and Palette in their 16-bit form.                                 *)

\* Color::from_16bit: three 5-bit fields, each shifted left by 3 in a u8;
\* bit 15 of the word is not read.
Color_from_16bit(p) ==
    rgb(((p % 32) * 8) % 256, (((p \div 32) % 32) * 8) % 256,
        (((p \div 1024) % 32) * 8) % 256)

\* Color::from_le_bytes((l, r)).
Color_from_le_bytes(l, r) == Color_from_16bit(r * 256 + l)

\* to_16bit with the red and blue fields exchanged.
Color_to_16bit_bgr(c) == (c[1] \div 8) * 1024 + (c[2] \div 8) * 32 + (c[3] \div 8)
\* Color::to_16bit: (b >> 3) << 10 | (g >> 3) << 5 | (r >> 3).
Color_to_16bit(c) == (c[3] \div 8) * 1024 + (c[2] \div 8) * 32 + (c[1] \div 8)

\* Color::to_le_bytes.
Color_to_le_bytes(c) ==
    LET short == Color_to_16bit(c)
    IN  <<short % 256, (short \div 256) % 256>>

\* Palette::encode: flat_map of to_le_bytes over the colors from i on.
RECURSIVE Palette_encode_from(_, _)
Palette_encode_from(pal, i) ==
    IF i > Len(pal) THEN << >>
    ELSE Color_to_le_bytes(pal[i]) \o Palette_encode_from(pal, i + 1)
Palette_encode(pal) == Palette_encode_from(pal, 1)

\* FromIterator<u8> for Palette: tuples::<(_, _)>() pairs the bytes up and
\* leaves an odd last byte out.
Palette_from_bytes(bytes) ==
    [i \in 1..(Len(bytes) \div 2) |->
        Color_from_le_bytes(bytes[2 * i - 1], bytes[2 * i])]

----------------------------------------------------------------------------
(* parse_palette_string and Display for Palette.  A string is the sequence *)
(* of its chars, each a one-character string; the inputs are ASCII, so the *)
(* length in bytes is the number of chars.                                 *)

PALETTE_STRING_LEN == 64

HexUpper == <<"0", "1", "2", "3", "4", "5", "6", "7",
              "8", "9", "A", "B", "C", "D", "E", "F">>
HexLower == <<"0", "1", "2", "3", "4", "5", "6", "7",
              "8", "9", "a", "b", "c", "d", "e", "f">>

\* char::to_digit(16): Option<u32>.
to_digit(c) ==
    IF \E i \in 1..16 : HexUpper[i] = c \/ HexLower[i] = c
    THEN Some((CHOOSE i \in 1..16 : HexUpper[i] = c \/ HexLower[i] = c) - 1)
    ELSE NoneV

is_ascii_hexdigit(c) == to_digit(c) # NoneV

\* The digits of src from i on, read in base 16 onto acc: None at the
\* first char that is no digit.
RECURSIVE ParseDigits(_, _, _)
ParseDigits(src, i, acc) ==
    IF i > Len(src) THEN Some(acc)
    ELSE IF to_digit(src[i]) = NoneV THEN NoneV
    ELSE ParseDigits(src, i + 1, acc * 16 + to_digit(src[i])[1])

\* u16::from_str_radix(src, 16).ok() for a src of at most 4 chars: an
\* unsigned type takes a leading "+" before at least one digit and no "-".
u16_from_str_radix(src) ==
    IF Len(src) = 0 THEN NoneV
    ELSE IF src[1] = "+"
    THEN (IF Len(src) = 1 THEN NoneV ELSE ParseDigits(src, 2, 0))
    ELSE ParseDigits(src, 1, 0)

\* The group read in the order it is written.
format_abcd(a, b, c, d) == <<a, b, c, d>>
\* lib.rs:420: format!("{}{}{}{}", c, d, a, b).
format_cdab(a, b, c, d) == <<c, d, a, b>>

\* The closure of lib.rs:419-423 on the i-th group of four chars of s.
parse_group(s, i) ==
    LET w == u16_from_str_radix(
                 format_cdab(s[4 * i - 3], s[4 * i - 2], s[4 * i - 1], s[4 * i]))
    IN  IF w = NoneV THEN NoneV ELSE Some(Color_from_16bit(w[1]))

\* Option<Palette>.
parse_palette_string(s) ==
    IF Len(s) # PALETTE_STRING_LEN THEN NoneV
    ELSE IF ~(\E k \in 1..Len(s) : is_ascii_hexdigit(s[k])) THEN NoneV
    ELSE IF \E i \in 1..(Len(s) \div 4) : parse_group(s, i) = NoneV THEN NoneV
    ELSE Some([i \in 1..(Len(s) \div 4) |-> parse_group(s, i)[1]])

\* {:02X} of a byte.
UpperHex02(b) == <<HexUpper[(b \div 16) + 1], HexUpper[(b % 16) + 1]>>

\* Display for Color: the two bytes of to_le_bytes in upper-case hex.
Color_fmt(c) ==
    LET bs == Color_to_le_bytes(c) IN UpperHex02(bs[1]) \o UpperHex02(bs[2])

\* Display for Palette, from color i on.
RECURSIVE Palette_fmt_from(_, _)
Palette_fmt_from(pal, i) ==
    IF i > Len(pal) THEN << >> ELSE Color_fmt(pal[i]) \o Palette_fmt_from(pal, i + 1)
Palette_fmt(pal) == Palette_fmt_from(pal, 1)

\* Strings handed to parse_palette_string: n groups of four chars, all the
\* group fill but the p-th, which is g.
CharSamples == {"0", "7", "8", "a", "F", "g", "+"}
FillGroups == { <<"0", "0", "0", "0">>, <<"1", "F", "7", "C">>, <<"f", "f", "f", "f">>,
                <<"z", " ", "-", "g">> }
GroupString(n, fill, p, g) ==
    [k \in 1..(4 * n) |->
        IF (k - 1) \div 4 = p - 1 THEN g[((k - 1) % 4) + 1] ELSE fill[((k - 1) % 4) + 1]]

NoParse == [status |-> "None", palette |-> NoneV, shown |-> << >>]

InitPaletteString ==
    /\ \E n \in {15, 16, 17}, fill \in FillGroups, p \in {1, 16} :
          \E g \in [1..4 -> CharSamples] :
              (n = 16 \/ g \in [1..4 -> {"0", "g"}]) /\ ps_in = GroupString(n, fill, p, g)
    /\ ps_out = NoParse
    /\ pe_in = << >>
    /\ pe_out = [status |-> "Idle", bytes |-> << >>, decoded |-> << >>]

\* parse_palette_string, and the palette it returned shown with Display.
CallParsePaletteString ==
    /\ ps_out = NoParse
    /\ LET r == parse_palette_string(ps_in)
       IN  ps_out' = [status |-> "Done", palette |-> r,
                      shown |-> IF r = NoneV THEN << >> ELSE Palette_fmt(r[1])]
    /\ UNCHANGED <<ps_in, pe_in, pe_out>>

----------------------------------------------------------------------------
(* GBAImage::validate, the tile iterators and encode_tiles.                *)

\* Result<(), Error> as the name of the error, or "Ok".
validate(im) ==
    IF Len(im.data) # im.width * im.height THEN "DimensionMismatch"
    ELSE IF im.width % 8 # 0 /\ im.height % 8 # 0 THEN "BadDimensions"
    ELSE IF \E i \in 1..Len(im.data) : im.data[i] > 15 THEN "BadColorIndex"
    ELSE "Ok"

\* GBAImage::pixel_at.
pixel_at(im, x, y) ==
    IF x >= im.width \/ y >= im.height THEN NoneV
    ELSE IF y * im.width + x + 1 > Len(im.data) THEN NoneV
    ELSE Some(im.data[y * im.width + x + 1])

\* GBAImage::view.
view(x, y, w, h) == [x |-> x, y |-> y, width |-> w, height |-> h]

\* Tiles::next run to the end from the iterator state (x, y): the views.
RECURSIVE Tiles(_, _, _)
Tiles(im, x, y) ==
    LET true_x == x * 8
        true_y == y * 8
    IN  IF true_y >= im.height THEN << >>
        ELSE <<view(true_x, true_y, 8, 8)>>
                 \o (IF (x + 1) * 8 >= im.width THEN Tiles(im, 0, y + 1)
                     ELSE Tiles(im, x + 1, y))

\* GBAImage::tiles.
tiles(im) == Tiles(im, 0, 0)

\* PixelIterator::next called until it returns None, from the state (x, y)
\* of an iterator over the view v (at least one pixel wide).  The k-th call
\* from the state (0, 0), k from 0, finds the iterator at
\* (k mod width, k div width): it returns None once k div width reaches
\* the height, and owner.pixel_at(..) as it is before that, so a pixel
\* outside the image ends the iteration.
PixelIterator(im, v, x, y) ==
    LET first == y * v.width + x
        call(k) == pixel_at(im, (k % v.width) + v.x, (k \div v.width) + v.y)
        calls == first..(v.width * v.height - 1)
        nones == { k \in calls : call(k) = NoneV }
        end == IF nones = {} THEN v.width * v.height
               ELSE CHOOSE k \in nones : \A j \in nones : k <= j
    IN  [i \in 1..(end - first) |-> call(first + i - 1)[1]]

\* GBAImageView::pixels.
view_pixels(im, v) == PixelIterator(im, v, 0, 0)

\* flat_map(|tile| tile.pixels()) over the views from i on.
RECURSIVE FlatPixels(_, _, _)
FlatPixels(im, views, i) ==
    IF i > Len(views) THEN << >>
    ELSE view_pixels(im, views[i]) \o FlatPixels(im, views, i + 1)

\* The byte of a pair with the first pixel in the high nibble.
pack_pair_high_first(a, b) == (((a % 16) * 16) + (b % 16)) % 256
\* lib.rs:537: ((a & 0xF) | ((b & 0xF) << 4)) as u8.
pack_pair(a, b) == ((a % 16) + (b % 16) * 16) % 256

\* encode_tiles: tuples::<(_, _)>() leaves an odd last pixel out.
encode_tiles(im, views) ==
    LET px == FlatPixels(im, views, 1)
    IN  [k \in 1..(Len(px) \div 2) |-> pack_pair(px[2 * k - 1], px[2 * k])]

----------------------------------------------------------------------------
(* The images and palettes handed to tilemage.                             *)

\* w x h images whose k-th pixel (row-major, from 0) is Col(k % m) ...
RampImage(w, h, m) == [w |-> w, h |-> h, pix |-> [k \in 1..(w * h) |-> Col((k - 1) % m)]]
\* ... with pixel p (from 1; 0 for none) repainted Col(c).
Repaint(img, p, c) ==
    IF p = 0 THEN img ELSE [img EXCEPT !.pix[p] = Col(c)]

\* w x h images whose top-left 8x2 block holds Col(0..15) row by row, the
\* pixels outside it repeating colors of the block.
BlockImage(w, h) ==
    [w |-> w, h |-> h,
     pix |-> [k \in 1..(w * h) |->
                LET x == (k - 1) % w
                    y == (k - 1) \div w
                IN  IF x < 8 /\ y < 2 THEN Col(x + 8 * y) ELSE Col((x + y) % 16)]]
BlockSizes == { <<9, 2>>, <<10, 3>> }

ImgSizes == { <<1, 1>>, <<2, 2>>, <<8, 2>>, <<9, 2>>, <<16, 1>>, <<4, 4>> }
Moduli == {3, 16, MaxColor + 1}
RepaintColors == {0, 9, MaxColor}
Images ==
    UNION { { Repaint(RampImage(sz[1], sz[2], m), p, c) :
                p \in 0..(sz[1] * sz[2]), c \in RepaintColors } :
            sz \in ImgSizes, m \in Moduli }
    \cup UNION { { Repaint(BlockImage(sz[1], sz[2]), p, c) :
                     p \in 0..(sz[1] * sz[2]), c \in RepaintColors } :
                 sz \in BlockSizes }

\* Palettes: Col(0), Col(1), ... of several lengths; the same padded with
\* Col(0) as a palette file padded with zeros is; repeats; other orders.
RampPalette(n) == [i \in 1..n |-> Col(i - 1)]
PaddedPalette(k, n) == [i \in 1..n |-> IF i <= k THEN Col(i - 1) ELSE Col(0)]
Palettes ==
    { RampPalette(n) : n \in {0, 3, 15, 16, MaxColor, MaxColor + 1} }
    \cup { PaddedPalette(3, 16), PaddedPalette(16, MaxColor + 1) }
    \cup { <<Col(0), Col(0), Col(1), Col(2)>>, <<Col(2), Col(1), Col(0)>>,
           <<Col(1), Col(0), Col(1)>> }
PaletteArgs == {NoneV} \cup { Some(q) : q \in Palettes }
PlteChunks ==
    { NoneV, Some(RampPalette(3)), Some(RampPalette(MaxColor + 1)),
      Some(<<Col(9), Col(1), Col(0), Col(2), Col(0)>>) }

NoOutput == [status |-> "None", image |-> NoImage]

\* ConvertOpts and the outcome of run: the error, or "Ok" with the bytes
\* written to each target that was asked for.
ConvertOpts(output, palette_out) == [output |-> output, palette_out |-> palette_out]
RunResult(status, output, palette_out) ==
    [status |-> status, output |-> output, palette_out |-> palette_out]
NoRun == RunResult("None", NoneV, NoneV)

\* GBAImage::from_generic_image called directly.
InitGeneric ==
    /\ img_in \in Images
    /\ pal_in \in PaletteArgs
    /\ fmt_in = "Bmp"
    /\ plte_in = NoneV
    /\ img_out = NoOutput
    /\ run_opts = ConvertOpts(FALSE, FALSE)
    /\ run_out = NoRun

CallFromGenericImage ==
    /\ img_out = NoOutput
    /\ img_out' = from_generic_image(img_in, pal_in)
    /\ UNCHANGED <<img_in, pal_in, fmt_in, plte_in, run_opts, run_out>>

\* lib/gbagfx.rs: an image with no pixels, and the images and palettes of
\* from_generic_image.
EmptyImage == [w |-> 0, h |-> 0, pix |-> << >>]

InitImageView ==
    /\ img_in \in Images \cup {EmptyImage}
    /\ pal_in \in PaletteArgs
    /\ fmt_in = "Bmp"
    /\ plte_in = NoneV
    /\ img_out = NoOutput
    /\ run_opts = ConvertOpts(FALSE, FALSE)
    /\ run_out = NoRun

CallWithInferredPalette ==
    /\ img_out = NoOutput
    /\ pal_in = NoneV
    /\ img_out' \in with_inferred_palette(img_in)
    /\ UNCHANGED <<img_in, pal_in, fmt_in, plte_in, run_opts, run_out>>

CallWithKnownPalette ==
    /\ img_out = NoOutput
    /\ pal_in # NoneV
    /\ img_out' \in with_known_palette(img_in, pal_in[1])
    /\ UNCHANGED <<img_in, pal_in, fmt_in, plte_in, run_opts, run_out>>

\* convert_image on a file of either format; only a PNG file has a PLTE
\* chunk.
InitConvert ==
    /\ img_in \in Images
    /\ pal_in \in PaletteArgs
    /\ fmt_in \in {"Png", "Bmp"}
    /\ plte_in \in PlteChunks
    /\ (fmt_in = "Bmp" => plte_in = NoneV)
    /\ img_out = NoOutput
    /\ run_opts = ConvertOpts(FALSE, FALSE)
    /\ run_out = NoRun

CallConvertImage ==
    /\ img_out = NoOutput
    /\ img_out' = convert_image(img_in, fmt_in, plte_in, pal_in)
    /\ UNCHANGED <<img_in, pal_in, fmt_in, plte_in, run_opts, run_out>>

----------------------------------------------------------------------------
(* Palette::encode on its own.                                             *)

\* Palettes handed to encode: every palette of up to MaxPal colors with
\* channels among ChannelSamples, and longer ramps.
ChannelSamples == {7, 136, 255}
ColorSamples == { rgb(r, g, b) : r, g, b \in ChannelSamples }

NoEncoding == [status |-> "None", bytes |-> << >>, decoded |-> << >>]

InitPaletteBytes ==
    /\ \/ \E n \in 0..MaxPal : pe_in \in [1..n -> ColorSamples]
       \/ \E n \in {15, 16, 17, MaxColor + 1} : pe_in = RampPalette(n)
       \/ \E n \in {15, 16, 17} : pe_in = PaddedPalette(3, n)
    /\ pe_out = NoEncoding
    /\ ps_in = << >>
    /\ ps_out = [status |-> "Idle", palette |-> NoneV, shown |-> << >>]

\* Palette::encode, and the bytes collected back into a Palette.
CallPaletteEncode ==
    /\ pe_out = NoEncoding
    /\ LET bytes == Palette_encode(pe_in)
       IN  pe_out' = [status |-> "Done", bytes |-> bytes,
                      decoded |-> Palette_from_bytes(bytes)]
    /\ UNCHANGED <<pe_in, ps_in, ps_out>>

----------------------------------------------------------------------------
(* tilemage convert: ConvertOpts::run without --lz77.                      *)

\* Images for the tile encoder: w x h, pixel (x, y) is Col((a*x + b*y) % m).
TileImage(w, h, a, b, m) ==
    [w |-> w, h |-> h,
     pix |-> [k \in 1..(w * h) |-> Col((a * ((k - 1) % w) + b * ((k - 1) \div w)) % m)]]
\* One pixel of a plain image in another color.
OneHotImage(w, h, p) == Repaint(RampImage(w, h, 1), p, 1)

TileSizes ==
    { <<8, 8>>, <<16, 8>>, <<8, 16>>, <<16, 16>>, <<8, 2>>, <<8, 3>>, <<8, 10>>,
      <<2, 8>>, <<12, 8>>, <<1, 8>>, <<3, 3>>, <<9, 2>> }
Slopes == { <<1, 0>>, <<0, 1>>, <<1, 3>>, <<5, 7>> }
RunPalettes == { NoneV, Some(RampPalette(16)), Some(RampPalette(MaxColor + 1)) }

InitRun ==
    /\ \E sz \in TileSizes :
          \/ \E ab \in Slopes, m \in {2, 16, MaxColor + 1} :
                img_in = TileImage(sz[1], sz[2], ab[1], ab[2], m)
          \/ \E p \in 1..(sz[1] * sz[2]) : img_in = OneHotImage(sz[1], sz[2], p)
          \/ \E p \in 1..2 : img_in = Repaint(RampImage(sz[1], sz[2], MaxColor + 1), p, 9)
    /\ pal_in \in RunPalettes
    /\ fmt_in = "Png"
    /\ plte_in = NoneV
    /\ img_out = NoOutput
    /\ run_opts \in { ConvertOpts(o, q) : o, q \in BOOLEAN }
    /\ run_out = NoRun

\* main.rs:288-318: convert_image, validate, then the tiles to --output
\* and the palette to --palette-out.
CallRun ==
    /\ run_out = NoRun
    /\ LET image == convert_image(img_in, fmt_in, plte_in, pal_in)
           valid == IF image.status = "Ok" THEN validate(image.image) ELSE image.status
       IN  /\ img_out' = image
           /\ run_out' =
                 IF image.status # "Ok" THEN RunResult(image.status, NoneV, NoneV)
                 ELSE IF valid # "Ok" THEN RunResult(valid, NoneV, NoneV)
                 ELSE RunResult("Ok",
                        IF run_opts.output
                        THEN Some(encode_tiles(image.image, tiles(image.image)))
                        ELSE NoneV,
                        IF run_opts.palette_out
                        THEN Some(Palette_encode(image.image.palette))
                        ELSE NoneV)
    /\ UNCHANGED <<img_in, pal_in, fmt_in, plte_in, run_opts>>

----------------------------------------------------------------------------
(* The GBA LZ77 codec (crate gbalz77), from its frame format and the       *)
(* design-level algorithms of the codec's description.                     *)

LZ_MAGIC == 16         \* 0x10
MIN_MATCH == 3
MAX_MATCH == 18        \* 4-bit length field plus 3
WINDOW == 4096         \* 12-bit offset field plus 1

Strategies == {"CheckMostRecentOnly", "CheckAllCandidates"}

\* A token of the frame: a literal byte or a back-reference.
Literal(b) == [ref |-> FALSE, byte |-> b, length |-> 0, offset |-> 0]
Reference(len, offs) == [ref |-> TRUE, byte |-> 0, length |-> len, offset |-> offs]

\* The length of the match of x at cursor c (from 0) against anchor p < c,
\* counted from l: byte by byte, so the match may run over the cursor.
RECURSIVE MatchLen(_, _, _, _)
MatchLen(x, p, c, l) ==
    IF l < MAX_MATCH /\ c + l < Len(x) /\ x[p + l + 1] = x[c + l + 1]
    THEN MatchLen(x, p, c, l + 1)
    ELSE l

WindowStart(c) == IF c > WINDOW THEN c - WINDOW ELSE 0

\* CheckMostRecentOnly: the most recent anchor indexed under the byte at the
\* cursor, if it gives a match.  NoneV or Some(<<length, offset>>).
find_most_recent(x, c) ==
    LET anchors == { p \in WindowStart(c)..(c - 1) : x[p + 1] = x[c + 1] }
    IN  IF anchors = {} THEN NoneV
        ELSE LET p == CHOOSE a \in anchors : \A b \in anchors : b <= a
                 l == MatchLen(x, p, c, 0)
             IN  IF l >= MIN_MATCH THEN Some(<<l, c - p>>) ELSE NoneV

\* CheckAllCandidates taking the oldest anchor of the window that gives a
\* match, whatever its length.
find_oldest_candidate(x, c) ==
    LET anchors == WindowStart(c)..(c - 1)
        good == { p \in anchors : MatchLen(x, p, c, 0) >= MIN_MATCH }
    IN  IF good = {} THEN NoneV
        ELSE LET p == CHOOSE a \in good : \A b \in good : a <= b
             IN  Some(<<MatchLen(x, p, c, 0), c - p>>)
\* CheckAllCandidates: the longest match over every anchor of the window,
\* the smallest offset among the longest.
find_all_candidates(x, c) ==
    LET anchors == WindowStart(c)..(c - 1)
        good == { p \in anchors : MatchLen(x, p, c, 0) >= MIN_MATCH }
    IN  IF good = {} THEN NoneV
        ELSE LET p == CHOOSE a \in good : \A b \in good :
                          \/ MatchLen(x, b, c, 0) < MatchLen(x, a, c, 0)
                          \/ (MatchLen(x, b, c, 0) = MatchLen(x, a, c, 0) /\ b <= a)
             IN  Some(<<MatchLen(x, p, c, 0), c - p>>)

find_match(x, c, strategy) ==
    IF strategy = "CheckAllCandidates" THEN find_all_candidates(x, c)
    ELSE find_most_recent(x, c)

\* The tokens of x from cursor c on.
RECURSIVE Tokens(_, _, _)
Tokens(x, c, strategy) ==
    IF c >= Len(x) THEN << >>
    ELSE LET m == find_match(x, c, strategy)
         IN  IF m = NoneV
             THEN <<Literal(x[c + 1])>> \o Tokens(x, c + 1, strategy)
             ELSE <<Reference(m[1][1], m[1][2])>>
                      \o Tokens(x, c + m[1][1], strategy)

\* The bytes of one token; a reference is
\* ((length - 3) << 4) | ((offset - 1) >> 8), (offset - 1) & 0xFF
\* (encode_reference_plain stores the offset itself).
encode_reference_plain(len, offs) ==
    <<(len - MIN_MATCH) * 16 + (offs \div 256), offs % 256>>
encode_reference(len, offs) ==
    <<(len - MIN_MATCH) * 16 + ((offs - 1) \div 256), (offs - 1) % 256>>
TokenBytes(t) ==
    IF t.ref THEN encode_reference(t.length, t.offset) ELSE <<t.byte>>

\* The flag byte filled from its least significant bit.
RECURSIVE FlagByte_lsb_first(_, _, _)
FlagByte_lsb_first(toks, i, slot) ==
    IF slot = 8 THEN 0
    ELSE (IF i + slot <= Len(toks) /\ toks[i + slot].ref THEN 2 ^ slot ELSE 0)
         + FlagByte_lsb_first(toks, i, slot + 1)
\* The flag byte of the tokens toks[i..i+7]: MSB first, 1 for a reference,
\* 0 for a literal and for the slots past the end.
RECURSIVE FlagByte(_, _, _)
FlagByte(toks, i, slot) ==
    IF slot = 8 THEN 0
    ELSE (IF i + slot <= Len(toks) /\ toks[i + slot].ref THEN 2 ^ (7 - slot) ELSE 0)
         + FlagByte(toks, i, slot + 1)

RECURSIVE BlockBytes(_, _, _)
BlockBytes(toks, i, slot) ==
    IF slot = 8 \/ i + slot > Len(toks) THEN << >>
    ELSE TokenBytes(toks[i + slot]) \o BlockBytes(toks, i, slot + 1)

\* The blocks of toks[i..]: each a flag byte and its tokens.
RECURSIVE Blocks(_, _)
Blocks(toks, i) ==
    IF i > Len(toks) THEN << >>
    ELSE <<FlagByte(toks, i, 0)>> \o BlockBytes(toks, i, 0) \o Blocks(toks, i + 8)

Header(n) == <<LZ_MAGIC, n % 256, (n \div 256) % 256, (n \div 65536) % 256>>

compress(x, strategy) == Header(Len(x)) \o Blocks(Tokens(x, 0, strategy), 1)

\* Diagnostics of the decompressor.
Diag(kind, i, offs, expected) ==
    [kind |-> kind, i |-> i, offs |-> offs, expected |-> expected]
BadReference(i, offs) == Diag("BadReference", i, offs, "")
DataTooShort == Diag("DataTooShort", 0, 0, "")
BadHeader == Diag("BadHeader", 0, 0, "")
UnexpectedEof(expected) == Diag("UnexpectedEof", 0, 0, expected)

\* No bytes in place of a bad reference.
NoZeros(n) == << >>
\* The recovery of a bad reference: n zero bytes.
Zeros(n) == [k \in 1..n |-> 0]

\* n bytes copied one at a time from backoff behind the end of out.
RECURSIVE CopyBack(_, _, _)
CopyBack(out, backoff, n) ==
    IF n = 0 THEN out
    ELSE CopyBack(Append(out, out[Len(out) - backoff + 1]), backoff, n - 1)

\* The decoding loop.  st: pos (next input byte, from 1), out, errs, tok
\* (tokens decoded), flag and bits (the slots of flag not yet used).
RECURSIVE Decode(_, _, _)
Decode(inp, total, st) ==
    IF Len(st.out) >= total THEN st
    ELSE IF st.bits = 0
    THEN IF st.pos > Len(inp)
         THEN [st EXCEPT !.errs = Append(@, UnexpectedEof("flag byte"))]
         ELSE Decode(inp, total,
                     [st EXCEPT !.flag = inp[st.pos], !.pos = @ + 1, !.bits = 8])
    ELSE IF (st.flag \div (2 ^ (st.bits - 1))) % 2 = 0
    THEN IF st.pos > Len(inp)
         THEN [st EXCEPT !.errs = Append(@, UnexpectedEof("literal"))]
         ELSE Decode(inp, total,
                     [st EXCEPT !.out = Append(@, inp[st.pos]), !.pos = @ + 1,
                                !.bits = @ - 1, !.tok = @ + 1])
    ELSE IF st.pos + 1 > Len(inp)
         THEN [st EXCEPT !.errs = Append(@, UnexpectedEof("backref"))]
         ELSE LET b0 == inp[st.pos]
                  b1 == inp[st.pos + 1]
                  length == (b0 \div 16) + MIN_MATCH
                  backoff == (b0 % 16) * 256 + b1 + 1
                  next == [st EXCEPT !.pos = @ + 2, !.bits = @ - 1, !.tok = @ + 1]
              IN  IF Len(st.out) < backoff
                  THEN Decode(inp, total,
                              [next EXCEPT !.out = @ \o Zeros(length),
                                           !.errs = Append(@, BadReference(st.tok, backoff))])
                  ELSE Decode(inp, total,
                              [next EXCEPT !.out = CopyBack(@, backoff, length)])

\* decompress: the pair (bytes, errs).
decompress(inp) ==
    IF Len(inp) < 4 THEN [bytes |-> << >>, errs |-> <<DataTooShort>>]
    ELSE IF inp[1] # LZ_MAGIC THEN [bytes |-> << >>, errs |-> <<BadHeader>>]
    ELSE LET total == inp[2] + inp[3] * 256 + inp[4] * 65536
             st == Decode(inp, total,
                          [pos |-> 5, out |-> << >>, errs |-> << >>, tok |-> 0,
                           flag |-> 0, bits |-> 0])
         IN  [bytes |-> st.out, errs |-> st.errs]

----------------------------------------------------------------------------
(* gbalz77tool: a compress run of the tool followed by a decompress run on *)
(* the file it wrote.                                                      *)

\* main.rs:101-105.
strategy_of(best) ==
    IF best THEN "CheckAllCandidates" ELSE "CheckMostRecentOnly"

\* main.rs:109-114: input[from..to], from and to optional (offsets from 0).
\* Indexing a slice by a range checks it: a start after the end, or an end
\* (a start, with no end) after the length, panics.
slice_input(input, start, end) ==
    LET from == IF start = NoneV THEN 0 ELSE start[1]
        to == IF end = NoneV THEN Len(input) ELSE end[1]
    IN  IF from > to \/ to > Len(input)
        THEN [status |-> "Panic", bytes |-> << >>]
        ELSE [status |-> "Ok", bytes |-> SubSeq(input, from + 1, to)]

ByteAlphabet == {0, 65, 255}
Repeat(pat, n) == [k \in 1..(n * Len(pat)) |-> pat[((k - 1) % Len(pat)) + 1]]
\* Every buffer up to MaxLen bytes, and runs long enough for matches of
\* MAX_MATCH bytes and for more than one block of 8 tokens.
LzInputs ==
    UNION { [1..n -> ByteAlphabet] : n \in 0..MaxLen }
    \cup { Repeat(<<0>>, n) : n \in {17, 18, 19, 20, 40} }
    \cup { Repeat(<<0>>, 3) \o <<65>> \o Repeat(<<0>>, n) : n \in 3..(MaxLen + 1) }
    \cup { Repeat(<<0, 65>>, 12), Repeat(<<0, 65, 255, 65>>, 6),
           Repeat(<<0, 65, 255>>, 3) \o Repeat(<<255, 65, 0, 0>>, 3),
           <<0, 65, 255, 0, 65, 0, 255, 65, 0, 65, 255, 255, 0, 65, 255, 0>> }

NoPair == [bytes |-> << >>, errs |-> << >>]

InitLz ==
    /\ lz_input \in LzInputs
    /\ lz_best \in BOOLEAN
    /\ lz_pc = "compress"
    /\ lz_start = NoneV
    /\ lz_end = NoneV
    /\ lz_file = << >>
    /\ lz_result = NoPair
    /\ lz_output = NoneV

\* main.rs:100-107 and 126-142: Mode::Compress.
RunCompress ==
    /\ lz_pc = "compress"
    /\ lz_file' = compress(lz_input, strategy_of(lz_best))
    /\ lz_pc' = "decompress"
    /\ UNCHANGED <<lz_input, lz_best, lz_start, lz_end, lz_result, lz_output>>

\* main.rs:108-123 and 126-142: Mode::Decompress.  A panic of the slicing
\* ends the run before decompress is called and nothing is written.
RunDecompress ==
    /\ lz_pc = "decompress"
    /\ LET input == slice_input(lz_file, lz_start, lz_end)
           r == decompress(input.bytes)
       IN  IF input.status = "Panic"
           THEN /\ lz_pc' = "panic"
                /\ UNCHANGED <<lz_result, lz_output>>
           ELSE /\ lz_result' = r
                /\ lz_output' = IF r.errs # << >> THEN NoneV ELSE Some(r.bytes)
                /\ lz_pc' = "done"
    /\ UNCHANGED <<lz_input, lz_best, lz_start, lz_end, lz_file>>

\* The tool run in decompress mode on a file it did not write: a header
\* announcing total bytes (or a bad or short one) and up to MaxFrame bytes
\* among FrameBytes, which as flag bytes mark no reference, the first, the
\* second, or the first two tokens, and as reference bytes give lengths
\* 3, 4, 7 and 15 and backoffs 1, 17, 66 and 193.
FrameBytes == {0, 16, 65, 192}
FrameTotals == {0, 3, 8, 20}

\* The file and the offsets of a run: a frame with no --from and --to, or
\* one of two files a frame is cut out of (a frame alone, and one with a
\* byte before it and a byte after it) with each offset absent or up to
\* one past the length of the file.
InitDecompress ==
    /\ \/ /\ \/ \E total \in FrameTotals, n \in 0..MaxFrame :
                   \E body \in [1..n -> FrameBytes] :
                       lz_file = Header(total) \o body
             \/ \E n \in 0..3 : lz_file = [k \in 1..n |-> LZ_MAGIC]
             \/ \E b \in {0, 17} : lz_file = <<b, 3, 0, 0, 0, 65, 65, 65>>
          /\ lz_start = NoneV
          /\ lz_end = NoneV
       \/ /\ lz_file \in { <<16, 3, 0, 0, 0, 65, 65, 65>>,
                            <<255, 16, 2, 0, 0, 0, 65, 0, 255>> }
          /\ lz_start \in {NoneV} \cup { Some(n) : n \in 0..(Len(lz_file) + 1) }
          /\ lz_end \in {NoneV} \cup { Some(n) : n \in 0..(Len(lz_file) + 1) }
    /\ lz_input = << >>
    /\ lz_best = FALSE
    /\ lz_pc = "decompress"
    /\ lz_result = NoPair
    /\ lz_output = NoneV

----------------------------------------------------------------------------
(* Specifications: one per tool function, the others idle.                 *)

IdleImg ==
    /\ img_in = [w |-> 0, h |-> 0, pix |-> << >>] /\ pal_in = NoneV
    /\ fmt_in = "Bmp" /\ plte_in = NoneV
    /\ img_out = [status |-> "Idle", image |-> NoImage]
    /\ run_opts = ConvertOpts(FALSE, FALSE)
    /\ run_out = RunResult("Idle", NoneV, NoneV)

IdlePal ==
    /\ ps_in = << >> /\ ps_out = [status |-> "Idle", palette |-> NoneV, shown |-> << >>]
    /\ pe_in = << >>
    /\ pe_out = [status |-> "Idle", bytes |-> << >>, decoded |-> << >>]

IdleFemap ==
    /\ layers = << >> /\ li = 1 /\ main_layer = NotFound /\ map_changes = << >>
    /\ width = NoneV /\ height = NoneV /\ properties = {}
    /\ femap = Failed("Idle", "")
IdleGid == gid_in = NoneV /\ gid_out = [status |-> "Idle", tile |-> 0]
IdleChange == mc_in = NoLayer /\ mc_out = [status |-> "Idle", change |-> NoChange]
IdleLz ==
    /\ lz_input = << >> /\ lz_best = FALSE /\ lz_pc = "idle" /\ lz_file = << >>
    /\ lz_start = NoneV /\ lz_end = NoneV
    /\ lz_result = NoPair /\ lz_output = NoneV

\* process_femap
Init == build \in Builds /\ InitFemap /\ IdleGid /\ IdleChange /\ IdleImg /\ IdlePal /\ IdleLz
Next ==
    \/ ScanSkip /\ UNCHANGED <<build, gidVars, mcVars, imgVars, palVars, lzVars>>
    \/ ScanMain /\ UNCHANGED <<build, gidVars, mcVars, imgVars, palVars, lzVars>>
    \/ ScanOther /\ UNCHANGED <<build, gidVars, mcVars, imgVars, palVars, lzVars>>
    \/ Finish /\ UNCHANGED <<build, gidVars, mcVars, imgVars, palVars, lzVars>>
Spec == Init /\ [][Next]_vars

\* gid_to_tile
InitGidSpec == build \in Builds /\ InitGid /\ IdleFemap /\ IdleChange /\ IdleImg /\ IdlePal /\ IdleLz
NextGid == CallGidToTile /\ UNCHANGED <<build, femapVars, mcVars, imgVars, palVars, lzVars>>
SpecGid == InitGidSpec /\ [][NextGid]_vars

\* make_map_change
InitChangeSpec == build \in Builds /\ InitChange /\ IdleFemap /\ IdleGid /\ IdleImg /\ IdlePal /\ IdleLz
NextChange == CallMakeMapChange /\ UNCHANGED <<build, femapVars, gidVars, imgVars, palVars, lzVars>>
SpecChange == InitChangeSpec /\ [][NextChange]_vars

\* GBAImage::from_generic_image
InitGenericSpec == build = "release" /\ InitGeneric /\ IdleFemap /\ IdleGid /\ IdleChange /\ IdlePal /\ IdleLz
NextGeneric == CallFromGenericImage /\ UNCHANGED <<build, femapVars, gidVars, mcVars, palVars, lzVars>>
SpecGeneric == InitGenericSpec /\ [][NextGeneric]_vars

\* GBAImage::with_inferred_palette and GBAImage::with_known_palette
InitImageViewSpec == build = "release" /\ InitImageView /\ IdleFemap /\ IdleGid /\ IdleChange /\ IdlePal /\ IdleLz
NextImageView ==
    \/ CallWithInferredPalette /\ UNCHANGED <<build, femapVars, gidVars, mcVars, palVars, lzVars>>
    \/ CallWithKnownPalette /\ UNCHANGED <<build, femapVars, gidVars, mcVars, palVars, lzVars>>
SpecImageView == InitImageViewSpec /\ [][NextImageView]_vars

\* convert_image
InitConvertSpec == build = "release" /\ InitConvert /\ IdleFemap /\ IdleGid /\ IdleChange /\ IdlePal /\ IdleLz
NextConvert == CallConvertImage /\ UNCHANGED <<build, femapVars, gidVars, mcVars, palVars, lzVars>>
SpecConvert == InitConvertSpec /\ [][NextConvert]_vars

\* parse_palette_string
InitPaletteStringSpec ==
    build = "release" /\ InitPaletteString /\ IdleFemap /\ IdleGid /\ IdleChange
        /\ IdleImg /\ IdleLz
NextPaletteString ==
    CallParsePaletteString /\ UNCHANGED <<build, femapVars, gidVars, mcVars, imgVars, lzVars>>
SpecPaletteString == InitPaletteStringSpec /\ [][NextPaletteString]_vars

\* Palette::encode
InitPaletteBytesSpec ==
    build = "release" /\ InitPaletteBytes /\ IdleFemap /\ IdleGid /\ IdleChange
        /\ IdleImg /\ IdleLz
NextPaletteBytes ==
    CallPaletteEncode /\ UNCHANGED <<build, femapVars, gidVars, mcVars, imgVars, lzVars>>
SpecPaletteBytes == InitPaletteBytesSpec /\ [][NextPaletteBytes]_vars

\* tilemage convert
InitRunSpec == build = "release" /\ InitRun /\ IdleFemap /\ IdleGid /\ IdleChange /\ IdlePal /\ IdleLz
NextRun == CallRun /\ UNCHANGED <<build, femapVars, gidVars, mcVars, palVars, lzVars>>
SpecRun == InitRunSpec /\ [][NextRun]_vars

\* gbalz77tool
InitLzSpec ==
    build = "release" /\ InitLz /\ IdleFemap /\ IdleGid /\ IdleChange /\ IdleImg
        /\ IdlePal
NextLz ==
    \/ RunCompress /\ UNCHANGED <<build, femapVars, gidVars, mcVars, imgVars, palVars>>
    \/ RunDecompress /\ UNCHANGED <<build, femapVars, gidVars, mcVars, imgVars, palVars>>
SpecLZ == InitLzSpec /\ [][NextLz]_vars

\* gbalz77tool decompress
InitDecompressSpec ==
    build = "release" /\ InitDecompress /\ IdleFemap /\ IdleGid /\ IdleChange /\ IdleImg
        /\ IdlePal
NextDecompress ==
    RunDecompress /\ UNCHANGED <<build, femapVars, gidVars, mcVars, imgVars, palVars>>
SpecDecompress == InitDecompressSpec /\ [][NextDecompress]_vars

----------------------------------------------------------------------------
(* Properties of process_femap.                                            *)

\* The sixteen spellings of "main", in either case of each letter.
MainSpellings ==
    { <<m, a, i, n>> : m \in {"m", "M"}, a \in {"a", "A"}, i \in {"i", "I"},
                       n \in {"n", "N"} }
\* The keys of a layer's properties.
Keys(layer) == { kv[1] : kv \in layer.props }

FiniteIdx == { i \in 1..Len(layers) : layers[i].kind = "finite" }
ExplicitMainIdx ==
    { i \in FiniteIdx : \/ layers[i].name \in MainSpellings
                        \/ Keys(layers[i]) \cap MainSpellings # {} }
FirstOf(S) == CHOOSE i \in S : \A j \in S : i <= j

\* The tile of a cell as the format defines it: gid * 4, 0 when empty.
CellTile(c) == IF c = NoneV THEN 0 ELSE c[1] * 4
LayerTiles(layer) == [k \in 1..Len(layer.cells) |-> CellTile(layer.cells[k])]

\* The layer the claim names as primary.
ClaimedPrimary ==
    IF ExplicitMainIdx # {} THEN FirstOf(ExplicitMainIdx) ELSE FirstOf(FiniteIdx)

\* C2: whenever process_femap succeeds, the primary is the single explicit
\* main finite tile layer if there is one and the first finite tile layer
\* otherwise, and the map's width, height and tiles are that layer's.
C2_PrimarySelection ==
    femap.status = "Ok" =>
        /\ FiniteIdx # {}
        /\ Cardinality(ExplicitMainIdx) <= 1
        /\ femap.primary = ClaimedPrimary
        /\ femap.map.width = layers[ClaimedPrimary].w
        /\ femap.map.height = layers[ClaimedPrimary].h
        /\ femap.map.tiles = LayerTiles(layers[ClaimedPrimary])

\* A success where the primary is main by a property key only, comes after
\* another finite tile layer, and a non-tile layer named main came first.
C2_Witness ==
    /\ femap.status = "Ok"
    /\ \E i \in 1..Len(layers) : layers[i].kind # "finite" /\ layers[i].name \in MainSpellings
    /\ femap.primary > FirstOf(FiniteIdx)
    /\ layers[femap.primary].name \notin MainSpellings

\* A success with no explicit main layer and two finite tile layers or more.
C2_WitnessFirst ==
    /\ femap.status = "Ok"
    /\ ExplicitMainIdx = {}
    /\ Cardinality(FiniteIdx) >= 2

ChangeSrcs == [j \in 1..Len(femap.map.map_changes) |-> femap.map.map_changes[j].src]

\* C3: whenever process_femap succeeds, every finite tile layer other than
\* the primary is among the map changes, and the map changes are in the
\* layers' order of occurrence.
C3_MapChangesCompleteInOrder ==
    femap.status = "Ok" =>
        /\ \A i \in FiniteIdx \ {femap.primary} :
              \E j \in 1..Len(ChangeSrcs) : ChangeSrcs[j] = i
        /\ \A j, k \in 1..Len(ChangeSrcs) : j < k => ChangeSrcs[j] < ChangeSrcs[k]

\* Every finite tile layer is non-empty and all its tile ids fit 16 bits.
AllFiniteLayersFit ==
    \A i \in FiniteIdx :
        /\ \E k \in 1..Len(layers[i].cells) : layers[i].cells[k] # NoneV
        /\ \A k \in 1..Len(layers[i].cells) :
              layers[i].cells[k] # NoneV => layers[i].cells[k][1] < 16384

\* C4: on layers that are non-empty and whose gids fit, process_femap fails
\* with "multiple main layers" exactly when two or more finite tile layers
\* are explicit main, with "no main layer" exactly when there is no finite
\* tile layer, and succeeds otherwise.
C4_FailureConditions ==
    (femap.status \notin {"Running", "Idle"} /\ AllFiniteLayersFit) =>
        /\ femap.status \in {"Ok", "Err"}
        /\ (femap.status = "Err" /\ femap.err = "map has multiple main layers!")
              <=> Cardinality(ExplicitMainIdx) >= 2
        /\ (femap.status = "Err" /\ femap.err = "no main layer!")
              <=> FiniteIdx = {}
        /\ femap.status = "Ok"
              <=> (FiniteIdx # {} /\ Cardinality(ExplicitMainIdx) <= 1)

\* Two explicit main layers with a plain finite layer and a non-tile layer
\* between them: the scan has failed.
C4_Witness ==
    /\ AllFiniteLayersFit
    /\ femap.err = "map has multiple main layers!"
    /\ \E a, b, c, d \in 1..Len(layers) :
          /\ a < b /\ b < d /\ a < c /\ c < d
          /\ a \in ExplicitMainIdx /\ d \in ExplicitMainIdx
          /\ b \in FiniteIdx \ ExplicitMainIdx
          /\ layers[c].kind # "finite"

\* C20: whenever process_femap succeeds, the primary is not among the map
\* changes, no layer is among them twice, and there is one map change for
\* every finite tile layer but the primary.
C20_PrimaryDisjointFromChanges ==
    femap.status = "Ok" =>
        /\ \A j \in 1..Len(ChangeSrcs) : ChangeSrcs[j] # femap.primary
        /\ \A j, k \in 1..Len(ChangeSrcs) : j # k => ChangeSrcs[j] # ChangeSrcs[k]
        /\ Len(ChangeSrcs) = Cardinality(FiniteIdx) - 1


----------------------------------------------------------------------------
(* Properties of gid_to_tile.                                              *)

\* C5: None encodes as tile 0; Some(g) encodes as g * 4 when that is below
\* 2^16 and fails with the overflow diagnostic otherwise.
C5_GidEncoding ==
    gid_out.status \notin {"None", "Idle"} =>
        IF gid_in = NoneV THEN gid_out = TileOk(0)
        ELSE IF gid_in[1] < 16384 THEN gid_out = TileOk(gid_in[1] * 4)
        ELSE gid_out.status = "Err"

----------------------------------------------------------------------------
(* Properties of make_map_change.                                          *)

IsEmptyLayer(layer) == \A k \in 1..Len(layer.cells) : layer.cells[k] = NoneV

\* C6: a layer with no non-empty cell is skipped or refused with a
\* diagnostic: no box is computed from xmax < xmin.
C6_EmptyLayerDefined ==
    (mc_out.status \notin {"None", "Idle"} /\ IsEmptyLayer(mc_in)) =>
        mc_out.status \in {"Err", "Skipped"}

\* The cell at (i, j) of the cropped region, which is the layer's cell at
\* (base_x + i, base_y + j), is a non-empty cell.
CroppedNonEmpty(i, j) ==
    LET c == mc_out.change
        x == c.base_x + i
        y == c.base_y + j
    IN  /\ i >= 0 /\ i < c.width /\ j >= 0 /\ j < c.height
        /\ x < mc_in.w /\ y < mc_in.h
        /\ mc_in.cells[y * mc_in.w + x + 1] # NoneV

MadeNonEmptyChange ==
    mc_out.status = "Ok" /\ ~IsEmptyLayer(mc_in)

\* C7 as stated: one of the four corners of the cropped region is a
\* non-empty cell.
C7_CornerNonEmpty ==
    MadeNonEmptyChange =>
        LET W == mc_out.change.width
            H == mc_out.change.height
        IN  \/ CroppedNonEmpty(0, 0) \/ CroppedNonEmpty(W - 1, 0)
            \/ CroppedNonEmpty(0, H - 1) \/ CroppedNonEmpty(W - 1, H - 1)

\* C7 amended: each of the four edges of the cropped region (first and last
\* column, first and last row) holds a non-empty cell.
C7_EdgesNonEmpty ==
    MadeNonEmptyChange =>
        LET W == mc_out.change.width
            H == mc_out.change.height
        IN  /\ W >= 1 /\ H >= 1
            /\ \E j \in 0..(H - 1) : CroppedNonEmpty(0, j)
            /\ \E j \in 0..(H - 1) : CroppedNonEmpty(W - 1, j)
            /\ \E i \in 0..(W - 1) : CroppedNonEmpty(i, 0)
            /\ \E i \in 0..(W - 1) : CroppedNonEmpty(i, H - 1)

\* A change at least 3 x 3 none of whose corners is a non-empty cell.
C7_Witness ==
    /\ MadeNonEmptyChange
    /\ mc_out.change.width >= 3 /\ mc_out.change.height >= 3
    /\ ~C7_CornerNonEmpty

\* The layer's cell at (x, y), and the columns and rows that hold a
\* non-empty cell.
CellAt(x, y) == mc_in.cells[y * mc_in.w + x + 1]
NonEmptyColumns ==
    { x \in 0..(mc_in.w - 1) : \E y \in 0..(mc_in.h - 1) : CellAt(x, y) # NoneV }
NonEmptyRows ==
    { y \in 0..(mc_in.h - 1) : \E x \in 0..(mc_in.w - 1) : CellAt(x, y) # NoneV }
SetMin(S) == CHOOSE a \in S : \A b \in S : a <= b
SetMax(S) == CHOOSE a \in S : \A b \in S : a >= b

\* Every non-empty cell holds a gid whose product by 4 is below 2^16.
AllGidsEncode ==
    \A k \in 1..Len(mc_in.cells) :
        mc_in.cells[k] # NoneV => mc_in.cells[k][1] < 16384

\* The coordinates make_map_change asks the layer for: those of the scan
\* of the whole layer and those of the window of the returned change.
CellsRead ==
    LET c == mc_out.change
        scan == Items(TileIterator_all(mc_in))
        crop == Items(TileIterator_window(mc_in,
                   [width |-> c.width, height |-> c.height,
                    base_x |-> c.base_x, base_y |-> c.base_y]))
    IN  { <<scan[k][1], scan[k][2]>> : k \in 1..Len(scan) }
        \cup { <<crop[k][1], crop[k][2]>> : k \in 1..Len(crop) }

\* C22: for a layer with a non-empty cell (and gids that encode),
\* make_map_change returns the exact bounding box of the non-empty cells,
\* base (xmin, ymin) and size (xmax - xmin + 1, ymax - ymin + 1): every
\* non-empty cell lies inside it and its first and last column and row
\* each hold one; the tile list has width * height entries, entry
\* j * width + i the encoding of the layer's cell (base_x + i, base_y + j);
\* and no cell outside the layer's bounds is read.
C22_ExactBoxAndWindow ==
    (mc_out.status \notin {"None", "Idle"} /\ ~IsEmptyLayer(mc_in) /\ AllGidsEncode) =>
        LET c == mc_out.change
        IN  /\ mc_out.status = "Ok"
            /\ c.base_x = SetMin(NonEmptyColumns)
            /\ c.base_y = SetMin(NonEmptyRows)
            /\ c.width = SetMax(NonEmptyColumns) - SetMin(NonEmptyColumns) + 1
            /\ c.height = SetMax(NonEmptyRows) - SetMin(NonEmptyRows) + 1
            /\ \A x \in 0..(mc_in.w - 1), y \in 0..(mc_in.h - 1) :
                  CellAt(x, y) # NoneV =>
                      /\ c.base_x <= x /\ x < c.base_x + c.width
                      /\ c.base_y <= y /\ y < c.base_y + c.height
            /\ c.base_x \in NonEmptyColumns
            /\ (c.base_x + c.width - 1) \in NonEmptyColumns
            /\ c.base_y \in NonEmptyRows
            /\ (c.base_y + c.height - 1) \in NonEmptyRows
            /\ Len(c.tiles) = c.width * c.height
            /\ \A i \in 0..(c.width - 1), j \in 0..(c.height - 1) :
                  c.tiles[j * c.width + i + 1]
                      = gid_to_tile(CellAt(c.base_x + i, c.base_y + j), build).tile
            /\ \A xy \in CellsRead :
                  /\ 0 <= xy[1] /\ xy[1] < mc_in.w
                  /\ 0 <= xy[2] /\ xy[2] < mc_in.h

\* A change cropped on the left and at the top, of a layer whose cells
\* encode differently, the window at least 2 x 2 with an empty cell in it.
C22_Witness ==
    /\ mc_out.status = "Ok" /\ ~IsEmptyLayer(mc_in) /\ AllGidsEncode
    /\ mc_out.change.base_x >= 1 /\ mc_out.change.base_y >= 1
    /\ mc_out.change.width >= 2 /\ mc_out.change.height >= 2
    /\ \E k \in 1..Len(mc_out.change.tiles) : mc_out.change.tiles[k] = 0
    /\ \E k \in 1..Len(mc_out.change.tiles) : mc_out.change.tiles[k] > 4

----------------------------------------------------------------------------
(* Properties of tilemage.                                                 *)

Returned == img_out.status \notin {"None", "Idle"}
Pixels == Range(img_in.pix)

\* The distinct colors of a sequence in the order of their first occurrence.
RECURSIVE FirstOccurrences(_, _)
FirstOccurrences(seq, i) ==
    IF i = 0 THEN << >>
    ELSE LET before == FirstOccurrences(seq, i - 1)
         IN  IF seq[i] \in Range(before) THEN before ELSE Append(before, seq[i])

\* The rules of the palette resolution, as conditions on the inputs.
HasSupplied == pal_in # NoneV
HasPlte == fmt_in = "Png" /\ plte_in # NoneV
First16 == Take(img_in.pix, 16)
First16Distinct == Len(First16) = 16 /\ Cardinality(Range(First16)) = 16
BlockColors ==
    { img_in.pix[y * img_in.w + x + 1] : x \in 0..7, y \in 0..1 }
BlockDistinct ==
    img_in.w >= 8 /\ img_in.h >= 2 /\ Cardinality(BlockColors) = 16

\* The outcome of a palette closed to new colors whose usable colors are S:
\* UnknownColor exactly when a pixel is not in S, else a palette of S.
FixedOutcome(S) ==
    IF Pixels \subseteq S
    THEN img_out.status = "Ok" /\ Range(img_out.image.palette) = S
    ELSE img_out.status = "UnknownColor"

\* C8: the palette of convert_image comes from the first applicable of the
\* supplied palette, the PLTE chunk, the first 16 pixels when pairwise
\* distinct, the top-left 8x2 block when of 16 colors, and inference over
\* all pixels; the first four are closed to new colors.
C8_ResolutionOrder ==
    Returned =>
        IF HasSupplied THEN FixedOutcome(Range(Take(pal_in[1], 16)))
        ELSE IF HasPlte THEN FixedOutcome(Range(Take(plte_in[1], 16)))
        ELSE IF First16Distinct
        THEN FixedOutcome(Range(First16))
             /\ (img_out.status = "Ok" => img_out.image.palette = First16)
        ELSE IF BlockDistinct
        THEN FixedOutcome(BlockColors)
             /\ (img_out.status = "Ok" => Len(img_out.image.palette) = 16)
        ELSE /\ img_out.status = "Ok"
             /\ img_out.image.palette = FirstOccurrences(img_in.pix, Len(img_in.pix))

\* No palette supplied and no PLTE; the first 16 pixels repeat a color but
\* the 8x2 block has 16 colors, and the image has a 17th: UnknownColor.
C8_Witness ==
    /\ Returned /\ ~HasSupplied /\ ~HasPlte
    /\ ~First16Distinct /\ BlockDistinct
    /\ img_out.status = "UnknownColor"

\* C9: with a palette P supplied, from_generic_image fails with
\* UnknownColor exactly when a pixel is not among the first 16 of P, and
\* otherwise returns the first 16 entries of P as they are.
C9_PaletteVerbatim ==
    (Returned /\ pal_in # NoneV) =>
        IF Pixels \subseteq Range(Take(pal_in[1], 16))
        THEN img_out.status = "Ok" /\ img_out.image.palette = Take(pal_in[1], 16)
        ELSE img_out.status = "UnknownColor"

\* C10: a returned GBAImage has width * height indices, each below the
\* palette's length and naming the color of its pixel.
C10_IndexedImageInvariant ==
    (Returned /\ img_out.status = "Ok") =>
        LET im == img_out.image
        IN  /\ Len(im.data) = im.width * im.height
            /\ \A i \in 1..Len(im.data) :
                  /\ im.data[i] < Len(im.palette)
                  /\ im.palette[im.data[i] + 1] = img_in.pix[i]

\* The color of the pixel (x, y) of the input image.
PixelAt(x, y) == img_in.pix[y * img_in.w + x + 1]

\* C19: when no palette is supplied or embedded, the first 16 pixels repeat
\* a color and the top-left 8x2 block has 16 colors, the palette of a
\* successful conversion is the block row by row: entry i is the pixel
\* (i mod 8, i div 8).
C19_BlockRowMajor ==
    (Returned /\ ~HasSupplied /\ ~HasPlte /\ ~First16Distinct /\ BlockDistinct
        /\ img_out.status = "Ok") =>
        /\ Len(img_out.image.palette) = 16
        /\ \A i \in 0..15 : img_out.image.palette[i + 1] = PixelAt(i % 8, i \div 8)


----------------------------------------------------------------------------
(* Properties of tilemage convert.                                         *)

Ran == run_out.status \notin {"None", "Idle"}
Converted == Ran /\ img_out.status = "Ok"

\* C11: when the converted image has a palette of more than 16 colors, the
\* validation of run fails with TooManyColors.
C11_TooManyColors ==
    (Converted /\ Len(img_out.image.palette) > 16) =>
        run_out.status = "TooManyColors"

\* C12: when run validates the image and writes the tiles, it writes
\* width * height / 2 bytes.
C12_TileEncodingLength ==
    (Ran /\ run_out.status = "Ok" /\ run_out.output # NoneV) =>
        Len(run_out.output[1]) = (img_out.image.width * img_out.image.height) \div 2

\* The position of the pixel (x, y) of an image w wide in the enumeration
\* tile by tile (tiles left to right, then top to bottom; rows of a tile
\* top to bottom, each left to right), from 0.
TileOrder(w, x, y) ==
    ((y \div 8) * (w \div 8) + (x \div 8)) * 64 + (y % 8) * 8 + (x % 8)

\* Pixel n (from 0) of a tile encoding: the low nibble of byte n div 2 for
\* an even n, its high nibble for an odd n.
Nibble(bytes, n) ==
    IF n % 2 = 0 THEN bytes[(n \div 2) + 1] % 16 ELSE bytes[(n \div 2) + 1] \div 16

\* C13: for an image whose width and height are multiples of 8, the tiles
\* written hold pixel 2k and pixel 2k+1 of the tile order in the low and
\* high nibble of byte k, and unpacking them gives back the index grid.
C13_TileLayoutAndInverse ==
    (Ran /\ run_out.status = "Ok" /\ run_out.output # NoneV
        /\ img_out.image.width % 8 = 0 /\ img_out.image.height % 8 = 0) =>
        LET im == img_out.image
            bytes == run_out.output[1]
        IN  /\ Len(bytes) * 2 = im.width * im.height
            /\ \A k \in 1..Len(bytes) : bytes[k] \in 0..255
            /\ [i \in 1..(im.width * im.height) |->
                    Nibble(bytes, TileOrder(im.width, (i - 1) % im.width,
                                            (i - 1) \div im.width))]
               = im.data

\* Tiles written for an image two tiles wide and two tiles high whose
\* only pixel of index 1 is an odd pixel, below the first row, of the tile
\* right of the first one: the second tile from left to right then top to
\* bottom, the third from top to bottom then left to right.
C13_Witness ==
    /\ Ran /\ run_out.status = "Ok" /\ run_out.output # NoneV
    /\ img_out.image.width = 16 /\ img_out.image.height = 16
    /\ \E i \in 1..256 :
          /\ img_out.image.data = [j \in 1..256 |-> IF j = i THEN 1 ELSE 0]
          /\ (i - 1) % 16 >= 8 /\ (i - 1) \div 16 \in 1..7 /\ (i - 1) % 2 = 1
          /\ Nibble(run_out.output[1], 64 + TileOrder(8, ((i - 1) % 16) - 8, (i - 1) \div 16)) = 1

----------------------------------------------------------------------------
(* Properties of the palette strings.                                      *)

Parsed == ps_out.status = "Done"
IsHexString64 ==
    Len(ps_in) = 64 /\ \A k \in 1..Len(ps_in) : is_ascii_hexdigit(ps_in[k])

HexValue(c) == to_digit(c)[1]
\* The word with hex digits c, d, a, b of the i-th group a, b, c, d.
GroupWord(i) ==
    HexValue(ps_in[4 * i - 1]) * 4096 + HexValue(ps_in[4 * i]) * 256
        + HexValue(ps_in[4 * i - 3]) * 16 + HexValue(ps_in[4 * i - 2])

\* The upper-case form of a hex digit.
UpperChar(c) == HexUpper[HexValue(c) + 1]

ParsedAsWords ==
    /\ ps_out.palette # NoneV
    /\ Len(ps_out.palette[1]) = 16
    /\ \A i \in 1..16 : ps_out.palette[1][i] = Color_from_16bit(GroupWord(i))

\* C14 as stated: a string of 64 hex digits parses to the 16 colors of its
\* words c,d,a,b, and that palette shown is the upper-case form of the
\* string.
C14_PaletteStringRoundTrip ==
    (Parsed /\ IsHexString64) =>
        /\ ParsedAsWords
        /\ ps_out.shown = [k \in 1..64 |-> UpperChar(ps_in[k])]

\* C14 amended: ... and that palette shown is the upper-case form of the
\* string with bit 15 of every word cleared: the third digit of each group
\* is shown modulo 8.
C14_RoundTripClearsBit15 ==
    (Parsed /\ IsHexString64) =>
        /\ ParsedAsWords
        /\ ps_out.shown =
              [k \in 1..64 |->
                  IF k % 4 = 3 THEN HexUpper[(HexValue(ps_in[k]) % 8) + 1]
                  ELSE UpperChar(ps_in[k])]

\* A string of 64 hex digits with lower-case digits, and a word with bit
\* 15 set in its last group, parsed and shown.
C14_Witness ==
    /\ Parsed /\ IsHexString64
    /\ \E k \in 1..64 : ps_in[k] = "a"
    /\ HexValue(ps_in[63]) >= 8
    /\ HexValue(ps_in[3]) < 8
    /\ Len(ps_out.shown) = 64

\* C15: encode gives two bytes per color, the little-endian word
\* (b >> 3) << 10 | (g >> 3) << 5 | (r >> 3) with bit 15 clear, and the
\* bytes decoded pairwise give a palette of the same length whose channels
\* are the original ones with their low 3 bits cleared.
C15_PaletteBytesRoundTrip ==
    pe_out.status = "Done" =>
        /\ Len(pe_out.bytes) = 2 * Len(pe_in)
        /\ \A i \in 1..Len(pe_in) :
              /\ pe_out.bytes[2 * i - 1] \in 0..255
              /\ pe_out.bytes[2 * i] \in 0..127
              /\ pe_out.bytes[2 * i - 1] + 256 * pe_out.bytes[2 * i]
                    = (pe_in[i][3] \div 8) * 1024 + (pe_in[i][2] \div 8) * 32
                          + (pe_in[i][1] \div 8)
        /\ Len(pe_out.decoded) = Len(pe_in)
        /\ \A i \in 1..Len(pe_in) : \A ch \in 1..3 :
              pe_out.decoded[i][ch] = pe_in[i][ch] - (pe_in[i][ch] % 8)

\* A palette of more than 16 colors, with channels that lose low bits and
\* red channels that differ from the blue ones, encoded and decoded.
C15_Witness ==
    /\ pe_out.status = "Done"
    /\ Len(pe_in) > 16
    /\ pe_out.decoded # pe_in
    /\ \E i \in 1..Len(pe_in) : pe_in[i][1] \div 8 # pe_in[i][3] \div 8

----------------------------------------------------------------------------
(* Properties of the LZ77 codec.                                           *)

\* C1: decompressing what compress wrote, under either strategy, returns
\* the input bytes and no diagnostics.
C1_RoundTrip ==
    lz_pc = "done" =>
        /\ lz_result.bytes = lz_input
        /\ lz_result.errs = << >>
        /\ lz_output = Some(lz_input)

\* A round trip under CheckAllCandidates of a file with back-references
\* in more than one block (shorter than its input, over 8 tokens).
C1_Witness ==
    /\ lz_pc = "done"
    /\ lz_best
    /\ Len(lz_file) < Len(lz_input)
    /\ Len(Tokens(lz_input, 0, "CheckAllCandidates")) > 8

\* The length of a match, 0 for none.
MatchLength(m) == IF m = NoneV THEN 0 ELSE m[1][1]

\* C16 as stated: the file written under CheckAllCandidates is no longer
\* than the one CheckMostRecentOnly writes for the same input.
C16_AllNoLongerThanRecent ==
    (lz_pc # "compress" /\ lz_best) =>
        Len(lz_file) <= Len(compress(lz_input, "CheckMostRecentOnly"))

\* C16 amended: at every cursor position of the input, the match that
\* CheckAllCandidates finds is at least as long as the one that
\* CheckMostRecentOnly finds.
C16_AllMatchesNoShorter ==
    lz_pc # "compress" =>
        \A c \in 0..(Len(lz_input) - 1) :
            MatchLength(find_match(lz_input, c, "CheckAllCandidates"))
                >= MatchLength(find_match(lz_input, c, "CheckMostRecentOnly"))

\* An input compressed under CheckAllCandidates at one position of which
\* the most recent anchor gives a match, and an older anchor a longer one.
C16_Witness ==
    /\ lz_pc # "compress" /\ lz_best
    /\ \E c \in 0..(Len(lz_input) - 1) :
          /\ MatchLength(find_match(lz_input, c, "CheckMostRecentOnly")) >= MIN_MATCH
          /\ MatchLength(find_match(lz_input, c, "CheckAllCandidates"))
                > MatchLength(find_match(lz_input, c, "CheckMostRecentOnly"))

Zeros18 == Zeros(18)

\* C17 as stated: 18 zero bytes compress to 10 12 00 00 80 00 E0 00, and
\* these 8 bytes decompress to 18 zero bytes with no diagnostics.
C17_ScenarioS3 ==
    (lz_pc = "done" /\ lz_input = Zeros18) =>
        /\ lz_file = <<16, 18, 0, 0, 128, 0, 224, 0>>
        /\ decompress(<<16, 18, 0, 0, 128, 0, 224, 0>>)
              = [bytes |-> Zeros18, errs |-> << >>]

\* C17 amended: 18 zero bytes compress to 10 12 00 00 40 00 E0 00 (the
\* literal takes the flag's top bit as 0, the reference the next bit as
\* 1), and these 8 bytes decompress to 18 zero bytes with no diagnostics.
C17_ScenarioS3Flag40 ==
    (lz_pc = "done" /\ lz_input = Zeros18) =>
        /\ lz_file = <<16, 18, 0, 0, 64, 0, 224, 0>>
        /\ lz_result = [bytes |-> Zeros18, errs |-> << >>]
        /\ lz_output = Some(Zeros18)

\* The 18 zero bytes compressed and decompressed.
C17_Witness ==
    /\ lz_pc = "done" /\ lz_input = Zeros18
    /\ Len(lz_file) = 8

\* The tokens of a frame as its format lays them out, read from input
\* position pos on until the output would hold total bytes or the input
\* gives out: fp is the position of the flag byte in use, slot the number
\* of its bits used (8: none left), outlen the output length so far and
\* idx the number of tokens before.
RECURSIVE FrameTokens(_, _, _, _, _, _, _)
FrameTokens(inp, total, pos, fp, slot, outlen, idx) ==
    IF outlen >= total THEN << >>
    ELSE IF slot = 8
    THEN (IF pos > Len(inp) THEN << >>
          ELSE FrameTokens(inp, total, pos + 1, pos, 0, outlen, idx))
    ELSE IF (inp[fp] \div (2 ^ (7 - slot))) % 2 = 0
    THEN (IF pos > Len(inp) THEN << >>
          ELSE <<[ref |-> FALSE, byte |-> inp[pos], length |-> 1, backoff |-> 0,
                  start |-> outlen, idx |-> idx]>>
               \o FrameTokens(inp, total, pos + 1, fp, slot + 1, outlen + 1, idx + 1))
    ELSE (IF pos + 1 > Len(inp) THEN << >>
          ELSE LET length == (inp[pos] \div 16) + 3
                   backoff == (inp[pos] % 16) * 256 + inp[pos + 1] + 1
               IN  <<[ref |-> TRUE, byte |-> 0, length |-> length, backoff |-> backoff,
                      start |-> outlen, idx |-> idx]>>
                   \o FrameTokens(inp, total, pos + 2, fp, slot + 1,
                                  outlen + length, idx + 1))

Decompressed == lz_pc = "done"
\* The bytes of the file from --from (0 without it) up to --to (the end
\* without it): what a run that got as far as decompress handed to it.
SliceFrom == IF lz_start = NoneV THEN 0 ELSE lz_start[1]
SliceTo == IF lz_end = NoneV THEN Len(lz_file) ELSE lz_end[1]
Handed == [k \in 1..(SliceTo - SliceFrom) |-> lz_file[SliceFrom + k]]
ValidHeader == Len(Handed) >= 4 /\ Handed[1] = 16
FileTokens ==
    FrameTokens(Handed, Handed[2] + Handed[3] * 256 + Handed[4] * 65536,
                5, 0, 8, 0, 0)
IsBadToken(t) == t.ref /\ t.backoff > t.start
IsBadReference(e) == e.kind = "BadReference"

\* C18: on a frame with a valid header, every reference whose backoff is
\* greater than the output length at its turn is reported as BadReference
\* with its token index and backoff, in token order, and stands for
\* `length` zero bytes in the output, after which the following tokens are
\* decoded as usual; a short input and a bad header alone give no output.
C18_TolerantDecompression ==
    Decompressed =>
        IF Len(Handed) < 4 THEN lz_result = [bytes |-> << >>, errs |-> <<DataTooShort>>]
        ELSE IF Handed[1] # 16 THEN lz_result = [bytes |-> << >>, errs |-> <<BadHeader>>]
        ELSE LET T == FileTokens
                 bad == SelectSeq(T, IsBadToken)
                 reported == SelectSeq(lz_result.errs, IsBadReference)
             IN  /\ Len(reported) = Len(bad)
                 /\ \A k \in 1..Len(bad) :
                       /\ reported[k].i = bad[k].idx
                       /\ reported[k].offs = bad[k].backoff
                 /\ Len(lz_result.bytes)
                       = (IF T = << >> THEN 0 ELSE T[Len(T)].start + T[Len(T)].length)
                 /\ \A k \in 1..Len(T) :
                       /\ IsBadToken(T[k]) =>
                             \A j \in 1..T[k].length : lz_result.bytes[T[k].start + j] = 0
                       /\ ~T[k].ref => lz_result.bytes[T[k].start + 1] = T[k].byte
                       /\ (T[k].ref /\ ~IsBadToken(T[k])) =>
                             \A j \in 1..T[k].length :
                                 lz_result.bytes[T[k].start + j]
                                     = lz_result.bytes[T[k].start + j - T[k].backoff]
                 /\ \A k \in 1..Len(lz_result.errs) :
                       lz_result.errs[k].kind \in {"BadReference", "UnexpectedEof"}

\* A frame with two bad references and, after them, a literal that is not
\* zero and made it to the output.
C18_Witness ==
    /\ Decompressed /\ ValidHeader
    /\ Len(SelectSeq(lz_result.errs, IsBadReference)) >= 2
    /\ \E k \in 1..Len(FileTokens) :
          /\ ~FileTokens[k].ref /\ FileTokens[k].byte = 65
          /\ \E j \in 1..(k - 1) : IsBadToken(FileTokens[j])
          /\ lz_result.bytes[FileTokens[k].start + 1] = 65

----------------------------------------------------------------------------
(* Properties of lib/gbagfx.rs.                                            *)

\* C21: with_inferred_palette never returns UnknownColor and gives each
\* color its index in the order of first occurrence of the row-major scan;
\* with_known_palette returns UnknownColor exactly when a pixel's color is
\* absent from the supplied palette and otherwise returns a palette with no
\* color that was not supplied.
C21_InferredOpenKnownClosed ==
    Returned =>
        IF pal_in = NoneV
        THEN /\ img_out.status = "Ok"
             /\ img_out.image.palette = FirstOccurrences(img_in.pix, Len(img_in.pix))
             /\ \A i \in 1..Len(img_in.pix) :
                   img_out.image.palette[img_out.image.data[i] + 1] = img_in.pix[i]
        ELSE IF Pixels \subseteq Range(pal_in[1])
        THEN /\ img_out.status = "Ok"
             /\ Range(img_out.image.palette) \subseteq Range(pal_in[1])
        ELSE img_out.status = "UnknownColor"

\* What the code does: the two entry points behave as each other is said to.
C21_EntryPointsExchanged ==
    Returned =>
        IF pal_in = NoneV
        THEN img_out.status = (IF img_in.pix = << >> THEN "Ok" ELSE "UnknownColor")
        ELSE /\ img_out.status = "Ok"
             /\ Range(img_out.image.palette) = Range(pal_in[1]) \cup Pixels
             /\ \A i \in 1..Len(img_in.pix) :
                   img_out.image.data[i] < Len(pal_in[1]) + Cardinality(Pixels)

\* with_inferred_palette has returned UnknownColor for an image with pixels.
C21_InferredUnknownColor ==
    Returned /\ pal_in = NoneV /\ img_in.pix # << >> /\ img_out.status = "UnknownColor"

\* with_known_palette has returned a palette with a color not supplied.
C21_KnownPaletteGrown ==
    /\ Returned /\ pal_in # NoneV /\ img_out.status = "Ok"
    /\ ~(Range(img_out.image.palette) \subseteq Range(pal_in[1]))

====
